---- MODULE Spec2Model ----
(***************************************************************************)
(* excel-mcp-server: the address codec (utils/cellUtils), the workbook     *)
(* cache and document access facade (utils/fileUtils), the tool handlers   *)
(* and the dispatcher (excelServer), as a state machine.                   *)
(*                                                                         *)
(* Text is a sequence of character codes ("A1" is <<65, 49>>), so that the *)
(* regular expressions, toUpperCase, charCodeAt, fromCharCode and parseInt *)
(* of the codec are computed rather than assumed.                          *)
(***************************************************************************)
EXTENDS Integers, Sequences, FiniteSets, TLC

VARIABLES
    cache,   \* workbookCache: canonical path string -> handle (0: no entry)
    heap,    \* the ExcelJS.Workbook objects, by handle
    disk,    \* the files, by absolute file name
    resp,    \* the last tool call and what it returned or threw
    calls,   \* tool calls suspended at an awaited file read or write
    codec    \* input and results of the address codec functions

vars == <<cache, heap, disk, resp, calls, codec>>

-----------------------------------------------------------------------------
(* Bounds of the model *)

MaxColumn == 710       \* column numbers 1..MaxColumn go through the codec
MaxTextLen == 3        \* longest cell reference text drawn for the codec
MaxRow == 3            \* worksheet rows the handlers are driven over
MaxCol == 2            \* worksheet columns the handlers are driven over
MaxSheets == 2         \* sheets per workbook the tool calls may build up

-----------------------------------------------------------------------------
(* Characters *)

IsUpper(c) == c >= 65 /\ c <= 90
IsLower(c) == c >= 97 /\ c <= 122
IsLetter(c) == IsUpper(c) \/ IsLower(c)
IsDigit(c) == c >= 48 /\ c <= 57
COLON == 58

\* String.prototype.toUpperCase on one character
ToUpperCase(c) == IF IsLower(c) THEN c - 32 ELSE c

-----------------------------------------------------------------------------
(* utils/cellUtils *)

\* least element of a non-empty set of integers
Least(S) == CHOOSE x \in S : \A y \in S : x <= y

\* the character classes of the two regular expressions
InClass(class, c) == IF class = "letter" THEN IsLetter(c) ELSE IsDigit(c)

\* index of the first character of s in the class; Len(s) + 1 when there is
\* none
FirstAt(s, class) ==
    Least({i \in 1..Len(s) : InClass(class, s[i])} \cup {Len(s) + 1})

\* index just after the run of characters of the class that starts at b
RunEnd(s, b, class) ==
    Least({i \in b..Len(s) : ~InClass(class, s[i])} \cup {Len(s) + 1})

\* the run of characters of the class that starts at b, <<>> when b is past
\* the end
RunFrom(s, b, class) ==
    IF b > Len(s) THEN <<>> ELSE SubSeq(s, b, RunEnd(s, b, class) - 1)

\* s.match(/[A-Za-z]+/) and s.match(/\d+/): the leftmost longest run, <<>>
\* standing for "no match" (a match is never empty)
RegexRun(s, class) == RunFrom(s, FirstAt(s, class), class)

\* parseInt(digits, 10) on a string of decimal digits
RECURSIVE ParseInt(_)
ParseInt(ds) ==
    IF ds = <<>> THEN 0
    ELSE 10 * ParseInt(SubSeq(ds, 1, Len(ds) - 1)) + (ds[Len(ds)] - 48)

\* `${row}`: the decimal digits of a natural number
RECURSIVE NumberToString(_)
NumberToString(n) ==
    IF n < 10 THEN <<48 + n>>
    ELSE Append(NumberToString(n \div 10), 48 + (n % 10))

columnLetterToNumberBadBase(letters) ==
    LET RECURSIVE Loop(_, _)
        Loop(i, column) ==
            IF i > Len(letters) THEN column
            ELSE Loop(i + 1, column * 26 + (ToUpperCase(letters[i]) - 65))
    IN  Loop(1, 0)

columnLetterToNumber(letters) ==
    LET RECURSIVE Loop(_, _)
        Loop(i, column) ==
            IF i > Len(letters) THEN column
            ELSE Loop(i + 1, column * 26 + (ToUpperCase(letters[i]) - 64))
    IN  Loop(1, 0)

numberToColumnLetter(num) ==
    LET RECURSIVE Loop(_, _)
        Loop(n, letter) ==
            IF n > 0
            THEN LET modulo == (n - 1) % 26
                 IN  Loop((n - modulo) \div 26, <<65 + modulo>> \o letter)
            ELSE letter
    IN  Loop(num, <<>>)

\* the McpError(InvalidParams) thrown by cellRefToCoordinate, as a value
InvalidRef == [ok |-> FALSE, row |-> 0, col |-> 0]

\* cellRefToCoordinate once the two matches are made
coordinateOf(colMatch, rowMatch) ==
    IF colMatch = <<>> \/ rowMatch = <<>> THEN InvalidRef
    ELSE [ok |-> TRUE, row |-> ParseInt(rowMatch),
          col |-> columnLetterToNumber(colMatch)]

cellRefToCoordinate(cellRef) ==
    coordinateOf(RegexRun(cellRef, "letter"), RegexRun(cellRef, "digit"))

coordinateToCellRef(row, col) == numberToColumnLetter(col) \o NumberToString(row)

\* `${startCell}:${endCell}` of the coordinates of a range
formatRange(range) ==
    coordinateToCellRef(range.startRow, range.startCol) \o <<COLON>>
        \o coordinateToCellRef(range.endRow, range.endCol)

\* String.prototype.split on one separator character
RECURSIVE Split(_, _)
Split(s, sep) ==
    LET cut == Least({i \in 1..Len(s) : s[i] = sep} \cup {Len(s) + 1})
    IN  IF cut > Len(s) THEN <<s>>
        ELSE <<SubSeq(s, 1, cut - 1)>> \o Split(SubSeq(s, cut + 1, Len(s)), sep)

\* the McpError(InvalidParams) thrown while parsing a range, as a value
InvalidRange ==
    [ok |-> FALSE, startCol |-> 0, startRow |-> 0, endCol |-> 0, endRow |-> 0]

\* the CellRange of two coordinates
rangeOf(startCoord, endCoord) ==
    IF ~startCoord.ok \/ ~endCoord.ok THEN InvalidRange
    ELSE [ok |-> TRUE,
          startCol |-> startCoord.col, startRow |-> startCoord.row,
          endCol |-> endCoord.col, endRow |-> endCoord.row]

\* parseRangeParts taking the first two of any number of parts
parseRangePartsLoose(rangeParts) ==
    IF Len(rangeParts) < 2 THEN InvalidRange
    ELSE rangeOf(cellRefToCoordinate(rangeParts[1]),
                 cellRefToCoordinate(rangeParts[2]))

\* parseRange once the text is split
parseRangeParts(rangeParts) ==
    IF Len(rangeParts) # 2 THEN InvalidRange
    ELSE rangeOf(cellRefToCoordinate(rangeParts[1]),
                 cellRefToCoordinate(rangeParts[2]))

parseRange(range) == parseRangeParts(Split(range, COLON))

\* String.prototype.includes(':')
IncludesColon(s) == \E i \in 1..Len(s) : s[i] = COLON

parseCellOrRange(cellOrRange) ==
    IF IncludesColon(cellOrRange) THEN parseRange(cellOrRange)
    ELSE rangeOf(cellRefToCoordinate(cellOrRange),
                 cellRefToCoordinate(cellOrRange))

isValidRange(range) ==
    /\ range.startRow > 0
    /\ range.startCol > 0
    /\ range.endRow >= range.startRow
    /\ range.endCol >= range.startCol

-----------------------------------------------------------------------------
(* Values: what a cell holds and what a JSON argument carries.  A value is *)
(* its JavaScript type and its text, so String(v) and truthiness are       *)
(* computed.                                                               *)

Null == [t |-> "null", s |-> <<>>]
Num(n) == [t |-> "number", s |-> NumberToString(n)]
Str(s) == [t |-> "string", s |-> s]

\* JavaScript truthiness of a value (header ? ... : ..., cell.value || ...)
Truthy(v) ==
    /\ v.t # "null"
    /\ ~(v.t = "string" /\ v.s = <<>>)
    /\ ~(v.t = "number" /\ v.s = <<48>>)

\* String(v)
StringOf(v) == IF v.t = "null" THEN <<110, 117, 108, 108>> ELSE v.s

Max(a, b) == IF a >= b THEN a ELSE b
Min(a, b) == IF a <= b THEN a ELSE b

\* greatest element of a finite set of naturals, 0 for the empty set
Greatest(S) == IF S = {} THEN 0 ELSE CHOOSE x \in S : \A y \in S : y <= x

-----------------------------------------------------------------------------
(* ExcelJS worksheets, as the handlers use them.  A worksheet is its name, *)
(* the non-null cell values by <<row, column>>, and for every row up to    *)
(* the last Row object the length of that row's cell array (rows[r] is 0   *)
(* where no Row object or no Cell object exists): getCell creates the Row  *)
(* and the Cell it is asked for, which is what rowCount and columnCount    *)
(* report.                                                                 *)

NoValues == [p \in {} |-> Null]

EmptySheet(name) == [name |-> name, values |-> NoValues, rows |-> <<>>]

\* worksheet.rowCount
rowCount(ws) == Len(ws.rows)

\* row.hasValues
hasValues(ws, r) == \E p \in DOMAIN ws.values : p[1] = r

\* worksheet.columnCount: the longest cell array among the rows with values
columnCount(ws) ==
    Greatest({ws.rows[r] : r \in {q \in 1..Len(ws.rows) : hasValues(ws, q)}})

\* cell.value of worksheet.getCell(r, c)
CellValue(ws, r, c) ==
    IF <<r, c>> \in DOMAIN ws.values THEN ws.values[<<r, c>>] ELSE Null

\* the row array grown to n rows, the new ones without cells
PadRows(rows, n) ==
    IF Len(rows) >= n THEN rows ELSE rows \o [i \in 1..(n - Len(rows)) |-> 0]

\* worksheet.getCell(r, c): the worksheet after the Row and Cell were made
getCell(ws, r, c) ==
    [ws EXCEPT !.rows = [PadRows(@, r) EXCEPT ![r] = Max(@, c)]]

\* getCell over every cell of rows r1..r2, columns c1..c2 (row by row)
getCells(ws, r1, r2, c1, c2) ==
    IF r1 > r2 \/ c1 > c2 THEN ws
    ELSE LET padded == PadRows(ws.rows, r2)
         IN  [ws EXCEPT !.rows =
                 SubSeq(padded, 1, r1 - 1)
                 \o [i \in 1..(r2 - r1 + 1) |-> Max(padded[r1 + i - 1], c2)]
                 \o SubSeq(padded, r2 + 1, Len(padded))]

\* worksheet.getCell(r, c).value = v
SetCellValue(ws, r, c, v) ==
    LET t == getCell(ws, r, c)
    IN  [t EXCEPT !.values =
            IF v = Null
            THEN [p \in (DOMAIN t.values) \ {<<r, c>>} |-> t.values[p]]
            ELSE (<<r, c>> :> v) @@ t.values]

-----------------------------------------------------------------------------
(* ExcelJS workbooks and the xlsx files *)

NoWorkbook == [live |-> FALSE, sheets |-> <<>>]
NoFile == [exists |-> FALSE, sheets |-> <<>>, chart |-> <<>>]

\* new ExcelJS.Workbook()
NewWorkbook == [live |-> TRUE, sheets |-> <<>>]

\* workbook.getWorksheet(name): position of the sheet of that name, 0 if none
getWorksheetByName(wb, name) ==
    Least({i \in 1..Len(wb.sheets) : wb.sheets[i].name = name}
          \cup {Len(wb.sheets) + 1}) % (Len(wb.sheets) + 1)

\* workbook.addWorksheet(name)
addWorksheet(wb, name) == [wb EXCEPT !.sheets = Append(@, EmptySheet(name))]

\* workbook.removeWorksheet(worksheet.id)
removeWorksheet(wb, i) ==
    [wb EXCEPT !.sheets = SubSeq(@, 1, i - 1) \o SubSeq(@, i + 1, Len(@))]

\* what workbook.xlsx.writeFile puts in the file: a cell without value is
\* not written, a row is written when it has a Cell object
SheetToFile(ws) ==
    LET last == Greatest({r \in 1..Len(ws.rows) : ws.rows[r] > 0})
    IN  [name |-> ws.name, values |-> ws.values,
         rows |-> <<>> \o [r \in 1..last |->
                     Greatest({p[2] : p \in {q \in DOMAIN ws.values : q[1] = r}})]]

WorkbookToFile(wb) ==
    [exists |-> TRUE,
     sheets |-> <<>> \o [i \in 1..Len(wb.sheets) |-> SheetToFile(wb.sheets[i])],
     chart |-> <<>>]

\* what workbook.xlsx.readFile builds from a file (ExcelJS reads no chart)
FileToWorkbook(file) == [live |-> TRUE, sheets |-> file.sheets]

-----------------------------------------------------------------------------
(* utils/fileUtils.  A path is its sequence of segments, "/" first when it *)
(* is absolute.                                                            *)

\* process.env.EXCEL_FILES_PATH || './excel_files'
EXCEL_FILES_PATH == <<"excel_files">>

\* the working directory of the server process
Cwd == <<"/", "srv">>

\* path.isAbsolute
isAbsolute(filename) == Len(filename) > 0 /\ filename[1] = "/"

getExcelPath(filename) ==
    IF isAbsolute(filename) THEN filename ELSE EXCEL_FILES_PATH \o filename

\* the file a path string names when fs opens it
FileOf(filePath) == IF isAbsolute(filePath) THEN filePath ELSE Cwd \o filePath

\* the filePath arguments of the tool calls: a name under the base
\* directory, and the absolute path of that same file
RelativeArg == <<"t.xlsx">>
AbsoluteArg == <<"/", "srv", "excel_files", "t.xlsx">>
FilePathArgs == {RelativeArg, AbsoluteArg}

CacheKeys == {getExcelPath(f) : f \in FilePathArgs}
Files == {FileOf(k) : k \in CacheKeys}

\* handles of the Workbook objects alive at one time
MaxHandles == 5
Handles == 1..MaxHandles
NoHandle == 0

\* the Workbook object a "new ExcelJS.Workbook()" gives: one not alive yet
NewHandle == Least({h \in Handles : ~heap[h].live})

\* fs.existsSync
existsSync(filePath) == disk[FileOf(filePath)].exists

\* loadWorkbook(filePath, workbookCache), readOk telling whether readFile
\* resolves: the workbook's handle, or the error thrown, with the cache and
\* the heap it leaves
loadWorkbookReread(filePath, readOk) ==
    IF ~existsSync(filePath)
    THEN [code |-> "InvalidParams", h |-> NoHandle, cache |-> cache, heap |-> heap]
    ELSE IF ~readOk
    THEN [code |-> "InternalError", h |-> NoHandle, cache |-> cache, heap |-> heap]
    ELSE [code |-> "", h |-> NewHandle,
          cache |-> [cache EXCEPT ![filePath] = NewHandle],
          heap |-> [heap EXCEPT ![NewHandle] =
                       FileToWorkbook(disk[FileOf(filePath)])]]

loadWorkbook(filePath, readOk) ==
    IF cache[filePath] # NoHandle
    THEN [code |-> "", h |-> cache[filePath], cache |-> cache, heap |-> heap]
    ELSE IF ~existsSync(filePath)
    THEN [code |-> "InvalidParams", h |-> NoHandle, cache |-> cache, heap |-> heap]
    ELSE IF ~readOk
    THEN [code |-> "InternalError", h |-> NoHandle, cache |-> cache, heap |-> heap]
    ELSE [code |-> "", h |-> NewHandle,
          cache |-> [cache EXCEPT ![filePath] = NewHandle],
          heap |-> [heap EXCEPT ![NewHandle] =
                       FileToWorkbook(disk[FileOf(filePath)])]]

\* an optional argument that was left out
NoArg == "<none>"

\* an optional text or list argument that was left out (undefined): the
\* sequence no text and no list of texts is equal to
NoText == <<-1>>

\* getWorksheet taking the first worksheet where none has the name
getWorksheetOrFirst(wb, sheetName) ==
    IF sheetName # NoArg /\ sheetName # ""
       /\ getWorksheetByName(wb, sheetName) # 0
    THEN getWorksheetByName(wb, sheetName)
    ELSE IF Len(wb.sheets) > 0 THEN 1 ELSE 0

\* getWorksheet(workbook, sheetName): the position of the worksheet, 0 when
\* the McpError(InvalidParams) is thrown
getWorksheet(wb, sheetName) ==
    IF sheetName # NoArg /\ sheetName # ""
    THEN getWorksheetByName(wb, sheetName)
    ELSE IF Len(wb.sheets) > 0 THEN 1 ELSE 0

-----------------------------------------------------------------------------
(* Tool calls: what a handler leaves behind.  A handler is an operator     *)
(* from the arguments, and from io (whether the awaited readFile and       *)
(* writeFile resolve), to the cache, heap and files after the call and the *)
(* response returned or the McpError thrown.                               *)

IO == [read : BOOLEAN, write : BOOLEAN]

Thrown(tool, args, code, c, hp, d) ==
    [cache |-> c, heap |-> hp, disk |-> d,
     resp |-> [tool |-> tool, args |-> args, status |-> "error",
               code |-> code, text |-> "", data |-> <<>>]]

Returned(tool, args, text, data, c, hp, d) ==
    [cache |-> c, heap |-> hp, disk |-> d,
     resp |-> [tool |-> tool, args |-> args, status |-> "ok",
               code |-> "", text |-> text, data |-> data]]

\* the heap with the worksheet at position si of workbook h replaced
WithSheet(hp, h, si, ws) == [hp EXCEPT ![h].sheets[si] = ws]

\* the files after "await workbook.xlsx.writeFile(fullPath)" resolved
writeFile(d, fullPath, wb) == [d EXCEPT ![FileOf(fullPath)] = WorkbookToFile(wb)]

-----------------------------------------------------------------------------
(* handlers/dataHandlers: read_excel *)

\* "worksheet.columnCount || 100", "worksheet.rowCount || 100"
READ_FALLBACK == 100
\* "startRow + 9", "startCol + 9" of the preview mode
PREVIEW_SPAN == 9

\* `Column${n}`
ColumnLabel(n) == <<67, 111, 108, 117, 109, 110>> \o NumberToString(n)

\* headerKey numbering the columns by their position in the worksheet
headerKeyAbsolute(ws, startRow, startCol, col) ==
    LET header == CellValue(ws, startRow, col)
    IN  IF Truthy(header) THEN StringOf(header)
        ELSE ColumnLabel(col)

\* the key of column col of the range: the header's text, or Column<N>
headerKey(ws, startRow, startCol, col) ==
    LET header == CellValue(ws, startRow, col)
    IN  IF Truthy(header) THEN StringOf(header)
        ELSE ColumnLabel(col - startCol + 1)

\* the columns of the range where row holds a value (cell.value !== null)
valuedCols(ws, row, startCol, endCol) ==
    {p[2] : p \in {q \in DOMAIN ws.values :
                      q[1] = row /\ q[2] >= startCol /\ q[2] <= endCol}}

\* the inner loop of the data rows: rowData of one row.  The columns are
\* visited left to right, so of two columns with one key the right one stays.
readRowData(ws, startRow, startCol, endCol, row) ==
    LET cols == valuedCols(ws, row, startCol, endCol)
        key(col) == headerKey(ws, startRow, startCol, col)
    IN  [k \in {key(col) : col \in cols} |->
            CellValue(ws, row, Greatest({col \in cols : key(col) = k}))]

\* readRows with the header row among the data rows
readRowsFromHeader(ws, startRow, startCol, endRow, endCol) ==
    LET rows == {row \in {p[1] : p \in DOMAIN ws.values} :
                    /\ row >= startRow
                    /\ row <= endRow
                    /\ valuedCols(ws, row, startCol, endCol) # {}}
        nth(i) == CHOOSE row \in rows :
                      Cardinality({q \in rows : q <= row}) = i
    IN  <<>> \o [i \in 1..Cardinality(rows) |->
                    readRowData(ws, startRow, startCol, endCol, nth(i))]

\* the outer loop of the data rows: the rowData of the rows below startRow
\* down to endRow, top to bottom; a row without any value (hasData false)
\* is skipped
readRows(ws, startRow, startCol, endRow, endCol) ==
    LET rows == {row \in {p[1] : p \in DOMAIN ws.values} :
                    /\ row > startRow
                    /\ row <= endRow
                    /\ valuedCols(ws, row, startCol, endCol) # {}}
        nth(i) == CHOOSE row \in rows :
                      Cardinality({q \in rows : q <= row}) = i
    IN  <<>> \o [i \in 1..Cardinality(rows) |->
                    readRowData(ws, startRow, startCol, endCol, nth(i))]

\* the preview mode: at most ten rows and ten columns of the range
previewRange(r, previewOnly) ==
    IF previewOnly
    THEN [r EXCEPT !.endRow = Min(@, r.startRow + PREVIEW_SPAN),
                   !.endCol = Min(@, r.startCol + PREVIEW_SPAN)]
    ELSE r

\* the range read_excel resolves from its arguments
readRange(ws, range, previewOnly) ==
    previewRange(IF range # <<>> THEN parseCellOrRange(range)
                 ELSE [ok |-> TRUE, startCol |-> 1, startRow |-> 1,
                       endCol |-> IF columnCount(ws) # 0 THEN columnCount(ws)
                                  ELSE READ_FALLBACK,
                       endRow |-> IF rowCount(ws) # 0 THEN rowCount(ws)
                                  ELSE READ_FALLBACK],
                 previewOnly)

\* the worksheet after the getCell calls of the header loop and of the
\* data loops
readTouched(ws, r) ==
    getCells(getCells(ws, r.startRow, r.startRow, r.startCol, r.endCol),
             r.startRow + 1, r.endRow, r.startCol, r.endCol)

\* read_excel on the worksheet at position si, r being the resolved range
readSheet(args, ld, si, r) ==
    IF ~r.ok
    THEN Thrown("read_excel", args, "InvalidParams", ld.cache, ld.heap, disk)
    ELSE Returned("read_excel", args, "data",
                  readRows(ld.heap[ld.h].sheets[si], r.startRow, r.startCol,
                           r.endRow, r.endCol),
                  ld.cache,
                  WithSheet(ld.heap, ld.h, si,
                            readTouched(ld.heap[ld.h].sheets[si], r)),
                  disk)

\* read_excel after "await loadWorkbook", ld being what loadWorkbook gave
readLoaded(args, ld) ==
    IF ld.code # ""
    THEN Thrown("read_excel", args, ld.code, ld.cache, ld.heap, disk)
    ELSE LET wb == ld.heap[ld.h]
             si == getWorksheet(wb, args.sheetName)
         IN  IF si = 0
             THEN Thrown("read_excel", args, "InvalidParams", ld.cache,
                         ld.heap, disk)
             ELSE readSheet(args, ld, si,
                            readRange(wb.sheets[si], args.range,
                                      args.previewOnly))

handleReadExcel(args, io) ==
    readLoaded(args, loadWorkbook(getExcelPath(args.filePath), io.read))

-----------------------------------------------------------------------------
(* handlers/dataHandlers: write_excel.  The data argument is              *)
(* [isArray, items]; an item is an array (its elements in vals), an object *)
(* (its keys, in enumeration order, and their values) or a scalar.         *)

ArrayItem(vals) == [kind |-> "array", keys |-> <<>>, vals |-> vals]
ObjectItem(keys, vals) == [kind |-> "object", keys |-> keys, vals |-> vals]
ScalarItem(v) == [kind |-> "scalar", keys |-> <<>>, vals |-> <<v>>]

\* Object.keys(item): the indices of an array, the keys of an object
ObjectKeys(item) ==
    IF item.kind = "array"
    THEN <<>> \o [j \in 1..Len(item.vals) |-> NumberToString(j - 1)]
    ELSE item.keys

\* for (j ...) worksheet.getCell(row, startCol + j).value = vals[j]
RECURSIVE writeRow(_, _, _, _, _)
writeRow(ws, row, startCol, vals, j) ==
    IF j > Len(vals) THEN ws
    ELSE writeRow(SetCellValue(ws, row, startCol + j - 1, vals[j]),
                  row, startCol, vals, j + 1)

\* for (i ...) over the items, item i going to row startRow + i + rowOffset
RECURSIVE writeItems(_, _, _, _, _, _)
writeItems(ws, startRow, startCol, items, rowOffset, i) ==
    IF i > Len(items) THEN ws
    ELSE writeItems(writeRow(ws, startRow + (i - 1) + rowOffset, startCol,
                             items[i].vals, 1),
                    startRow, startCol, items, rowOffset, i + 1)

\* the header row of the object form: Object.keys(data[0]) as strings
writeHeaderRow(ws, startRow, startCol, items) ==
    LET headers == ObjectKeys(items[1])
    IN  writeRow(ws, startRow, startCol,
                 <<>> \o [j \in 1..Len(headers) |-> Str(headers[j])], 1)

\* the worksheet after the cells were written; ok is FALSE where the data
\* is neither an array of arrays nor an array of objects
writeData(ws, startRow, startCol, data, writeHeaders) ==
    IF data.isArray /\ \A i \in 1..Len(data.items) : data.items[i].kind = "array"
    THEN [ok |-> TRUE,
          ws |-> writeItems(ws, startRow, startCol, data.items, 0, 1)]
    ELSE IF data.isArray
            /\ \A i \in 1..Len(data.items) : data.items[i].kind # "scalar"
    THEN LET withHeaders ==
                 IF writeHeaders /\ Len(data.items) > 0
                 THEN writeHeaderRow(ws, startRow, startCol, data.items)
                 ELSE ws
             rowOffset == IF writeHeaders THEN 1 ELSE 0
         IN  [ok |-> TRUE,
              ws |-> writeItems(withHeaders, startRow, startCol, data.items,
                                rowOffset, 1)]
    ELSE [ok |-> FALSE, ws |-> ws]

\* write_excel from the parsing of startCell to the last cell written, on
\* the workbook at handle h of heap hp: the heap it leaves, ok FALSE where it
\* throws
writeCells(args, hp, h) ==
    LET si == getWorksheet(hp[h], args.sheetName)
        start == parseCellOrRange(args.startCell)
        startRow == IF start.startRow # 0 THEN start.startRow ELSE 1
        startCol == IF start.startRow # 0 THEN start.startCol ELSE 1
    IN  IF si = 0 \/ ~start.ok THEN [ok |-> FALSE, heap |-> hp]
        ELSE (LET written == writeData(hp[h].sheets[si], startRow, startCol,
                                       args.data, args.writeHeaders)
              IN  [ok |-> written.ok,
                   heap |-> WithSheet(hp, h, si, written.ws)])

\* writeSaved giving the workbook back as it was loaded when writeFile
\* rejects
writeSavedRolledBack(args, io, ld, fullPath, w) ==
    IF ~w.ok
    THEN Thrown("write_excel", args, "InvalidParams", ld.cache, ld.heap, disk)
    ELSE IF ~io.write
    THEN Thrown("write_excel", args, "InternalError", ld.cache, ld.heap, disk)
    ELSE Returned("write_excel", args, "saved", <<>>, ld.cache, w.heap,
                  writeFile(disk, fullPath, w.heap[ld.h]))

\* write_excel from "await workbook.xlsx.writeFile" on, w being what
\* writeCells gave
writeSaved(args, io, ld, fullPath, w) ==
    IF ~w.ok
    THEN Thrown("write_excel", args, "InvalidParams", ld.cache, ld.heap, disk)
    ELSE IF ~io.write
    THEN Thrown("write_excel", args, "InternalError", ld.cache, w.heap, disk)
    ELSE Returned("write_excel", args, "saved", <<>>, ld.cache, w.heap,
                  writeFile(disk, fullPath, w.heap[ld.h]))

\* write_excel after "await loadWorkbook", ld being what loadWorkbook gave
writeLoaded(args, io, ld, fullPath) ==
    IF ld.code # ""
    THEN Thrown("write_excel", args, ld.code, ld.cache, ld.heap, disk)
    ELSE writeSaved(args, io, ld, fullPath, writeCells(args, ld.heap, ld.h))

handleWriteExcel(args, io) ==
    writeLoaded(args, io, loadWorkbook(getExcelPath(args.filePath), io.read),
                getExcelPath(args.filePath))

-----------------------------------------------------------------------------
(* handlers/workbookHandlers: create_excel, create_sheet *)

\* the default of the sheetName argument of create_excel
DefaultSheetName == "Sheet1"

handleCreateExcelOverwrite(args, io) ==
    LET sheetName == IF args.sheetName = NoArg THEN DefaultSheetName
                     ELSE args.sheetName
        fullPath == getExcelPath(args.filePath)
        workbook == addWorksheet(NewWorkbook, sheetName)
    IN  IF ~io.write
        THEN Thrown("create_excel", args, "InternalError", cache, heap, disk)
        ELSE Returned("create_excel", args, "created", <<>>,
                      [cache EXCEPT ![fullPath] = NewHandle],
                      [heap EXCEPT ![NewHandle] = workbook],
                      writeFile(disk, fullPath, workbook))

handleCreateExcel(args, io) ==
    LET sheetName == IF args.sheetName = NoArg THEN DefaultSheetName
                     ELSE args.sheetName
        fullPath == getExcelPath(args.filePath)
        workbook == addWorksheet(NewWorkbook, sheetName)
    IN  IF existsSync(fullPath)
        THEN Thrown("create_excel", args, "InvalidParams", cache, heap, disk)
        ELSE IF ~io.write
        THEN Thrown("create_excel", args, "InternalError", cache, heap, disk)
        ELSE Returned("create_excel", args, "created", <<>>,
                      [cache EXCEPT ![fullPath] = NewHandle],
                      [heap EXCEPT ![NewHandle] = workbook],
                      writeFile(disk, fullPath, workbook))

handleCreateSheetAnyName(args, io) ==
    LET fullPath == getExcelPath(args.filePath)
        ld == loadWorkbook(fullPath, io.read)
        wb == ld.heap[ld.h]
        hp == [ld.heap EXCEPT ![ld.h] = addWorksheet(wb, args.sheetName)]
    IN  IF ld.code # ""
        THEN Thrown("create_sheet", args, ld.code, ld.cache, ld.heap, disk)
        ELSE IF ~io.write
        THEN Thrown("create_sheet", args, "InternalError", ld.cache, hp, disk)
        ELSE Returned("create_sheet", args, "created", <<>>, ld.cache, hp,
                      writeFile(disk, fullPath, hp[ld.h]))

handleCreateSheet(args, io) ==
    LET fullPath == getExcelPath(args.filePath)
        ld == loadWorkbook(fullPath, io.read)
        wb == ld.heap[ld.h]
        hp == [ld.heap EXCEPT ![ld.h] = addWorksheet(wb, args.sheetName)]
    IN  IF ld.code # ""
        THEN Thrown("create_sheet", args, ld.code, ld.cache, ld.heap, disk)
        ELSE IF getWorksheetByName(wb, args.sheetName) # 0
        THEN Thrown("create_sheet", args, "InvalidParams", ld.cache, ld.heap, disk)
        ELSE IF ~io.write
        THEN Thrown("create_sheet", args, "InternalError", ld.cache, hp, disk)
        ELSE Returned("create_sheet", args, "created", <<>>, ld.cache, hp,
                      writeFile(disk, fullPath, hp[ld.h]))

-----------------------------------------------------------------------------
(* handlers/worksheetHandlers: rename_worksheet, delete_worksheet,         *)
(* copy_worksheet                                                          *)

handleRenameWorksheet(args, io) ==
    LET fullPath == getExcelPath(args.filePath)
        ld == loadWorkbook(fullPath, io.read)
        wb == ld.heap[ld.h]
        si == getWorksheetByName(wb, args.oldName)
        hp == [ld.heap EXCEPT ![ld.h].sheets[si].name = args.newName]
    IN  IF ld.code # ""
        THEN Thrown("rename_worksheet", args, ld.code, ld.cache, ld.heap, disk)
        ELSE IF si = 0 \/ getWorksheetByName(wb, args.newName) # 0
        THEN Thrown("rename_worksheet", args, "InvalidParams", ld.cache,
                    ld.heap, disk)
        ELSE IF ~io.write
        THEN Thrown("rename_worksheet", args, "InternalError", ld.cache, hp, disk)
        ELSE Returned("rename_worksheet", args, "renamed", <<>>, ld.cache, hp,
                      writeFile(disk, fullPath, hp[ld.h]))

handleDeleteWorksheetAny(args, io) ==
    LET fullPath == getExcelPath(args.filePath)
        ld == loadWorkbook(fullPath, io.read)
        wb == ld.heap[ld.h]
        si == getWorksheetByName(wb, args.sheetName)
        hp == [ld.heap EXCEPT ![ld.h] = removeWorksheet(wb, si)]
    IN  IF ld.code # ""
        THEN Thrown("delete_worksheet", args, ld.code, ld.cache, ld.heap, disk)
        ELSE IF si = 0
        THEN Thrown("delete_worksheet", args, "InvalidParams", ld.cache,
                    ld.heap, disk)
        ELSE IF ~io.write
        THEN Thrown("delete_worksheet", args, "InternalError", ld.cache, hp, disk)
        ELSE Returned("delete_worksheet", args, "deleted", <<>>, ld.cache, hp,
                      writeFile(disk, fullPath, hp[ld.h]))

handleDeleteWorksheet(args, io) ==
    LET fullPath == getExcelPath(args.filePath)
        ld == loadWorkbook(fullPath, io.read)
        wb == ld.heap[ld.h]
        si == getWorksheetByName(wb, args.sheetName)
        hp == [ld.heap EXCEPT ![ld.h] = removeWorksheet(wb, si)]
    IN  IF ld.code # ""
        THEN Thrown("delete_worksheet", args, ld.code, ld.cache, ld.heap, disk)
        ELSE IF si = 0 \/ Len(wb.sheets) = 1
        THEN Thrown("delete_worksheet", args, "InvalidParams", ld.cache,
                    ld.heap, disk)
        ELSE IF ~io.write
        THEN Thrown("delete_worksheet", args, "InternalError", ld.cache, hp, disk)
        ELSE Returned("delete_worksheet", args, "deleted", <<>>, ld.cache, hp,
                      writeFile(disk, fullPath, hp[ld.h]))

\* the target worksheet after the rows and cells of the source were copied:
\* eachRow and eachCell with includeEmpty visit every row up to the last one
\* and every cell up to the row's last one, and getRow and getCell on the
\* target make the same rows and cells there
copySheet(source, targetSheet) ==
    [name |-> targetSheet, values |-> source.values, rows |-> source.rows]

\* handleCopyWorksheet adding the target worksheet before it looks for the
\* source worksheet
handleCopyWorksheetAddFirst(args, io) ==
    LET fullPath == getExcelPath(args.filePath)
        ld == loadWorkbook(fullPath, io.read)
        wb == ld.heap[ld.h]
        si == getWorksheetByName(wb, args.sourceSheet)
        added == addWorksheet(wb, args.targetSheet)
        copied == [added EXCEPT !.sheets[Len(added.sheets)] =
                      copySheet(wb.sheets[si], args.targetSheet)]
        hp == [ld.heap EXCEPT ![ld.h] = copied]
    IN  IF ld.code # ""
        THEN Thrown("copy_worksheet", args, ld.code, ld.cache, ld.heap, disk)
        ELSE IF getWorksheetByName(wb, args.targetSheet) # 0
        THEN Thrown("copy_worksheet", args, "InvalidParams", ld.cache,
                    ld.heap, disk)
        ELSE IF si = 0
        THEN Thrown("copy_worksheet", args, "InvalidParams", ld.cache,
                    [ld.heap EXCEPT ![ld.h] = added], disk)
        ELSE IF ~io.write
        THEN Thrown("copy_worksheet", args, "InternalError", ld.cache, hp, disk)
        ELSE Returned("copy_worksheet", args, "copied", <<>>, ld.cache, hp,
                      writeFile(disk, fullPath, hp[ld.h]))

handleCopyWorksheet(args, io) ==
    LET fullPath == getExcelPath(args.filePath)
        ld == loadWorkbook(fullPath, io.read)
        wb == ld.heap[ld.h]
        si == getWorksheetByName(wb, args.sourceSheet)
        added == addWorksheet(wb, args.targetSheet)
        copied == [added EXCEPT !.sheets[Len(added.sheets)] =
                      copySheet(wb.sheets[si], args.targetSheet)]
        hp == [ld.heap EXCEPT ![ld.h] = copied]
    IN  IF ld.code # ""
        THEN Thrown("copy_worksheet", args, ld.code, ld.cache, ld.heap, disk)
        ELSE IF si = 0 \/ getWorksheetByName(wb, args.targetSheet) # 0
        THEN Thrown("copy_worksheet", args, "InvalidParams", ld.cache,
                    ld.heap, disk)
        ELSE IF ~io.write
        THEN Thrown("copy_worksheet", args, "InternalError", ld.cache, hp, disk)
        ELSE Returned("copy_worksheet", args, "copied", <<>>, ld.cache, hp,
                      writeFile(disk, fullPath, hp[ld.h]))

-----------------------------------------------------------------------------
(* handlers/rangeHandlers: validate_excel_range *)

\* "worksheet.rowCount || 1048576", "worksheet.columnCount || 16384"
EXCEL_MAX_ROWS == 1048576
EXCEL_MAX_COLS == 16384

\* the range text validate_excel_range parses: startCell alone, or
\* `${startCell}:${endCell}` when endCell is given
validateRangeText(startCell, endCell) ==
    IF endCell # <<>> THEN startCell \o <<COLON>> \o endCell ELSE startCell

\* the two counters of the scan over the range
rangeCellCount(range) ==
    IF range.endRow < range.startRow \/ range.endCol < range.startCol THEN 0
    ELSE (range.endRow - range.startRow + 1) * (range.endCol - range.startCol + 1)

rangeNonEmptyCount(ws, range) ==
    Cardinality({p \in DOMAIN ws.values :
                    /\ p[1] >= range.startRow /\ p[1] <= range.endRow
                    /\ p[2] >= range.startCol /\ p[2] <= range.endCol})

handleValidateExcelRange(args, io) ==
    LET fullPath == getExcelPath(args.filePath)
        ld == loadWorkbook(fullPath, io.read)
        wb == ld.heap[ld.h]
        si == getWorksheet(wb, args.sheetName)
        ws == wb.sheets[si]
        range == parseCellOrRange(validateRangeText(args.startCell, args.endCell))
        maxRow == IF rowCount(ws) # 0 THEN rowCount(ws) ELSE EXCEL_MAX_ROWS
        maxCol == IF columnCount(ws) # 0 THEN columnCount(ws) ELSE EXCEL_MAX_COLS
        touched == getCells(ws, range.startRow, range.endRow,
                            range.startCol, range.endCol)
    IN  IF ld.code # ""
        THEN Thrown("validate_excel_range", args, ld.code, ld.cache, ld.heap, disk)
        ELSE IF si = 0
        THEN Thrown("validate_excel_range", args, "InvalidParams", ld.cache,
                    ld.heap, disk)
        ELSE IF ~range.ok
        THEN Returned("validate_excel_range", args, "Invalid range format",
                      <<>>, ld.cache, ld.heap, disk)
        ELSE IF \/ range.startRow < 1 \/ range.startCol < 1
                \/ range.endRow > maxRow \/ range.endCol > maxCol
        THEN Returned("validate_excel_range", args,
                      "Range is outside worksheet boundaries", <<>>,
                      ld.cache, ld.heap, disk)
        ELSE Returned("validate_excel_range", args, "Range is valid",
                      <<rangeCellCount(range), rangeNonEmptyCount(ws, range)>>,
                      ld.cache, WithSheet(ld.heap, ld.h, si, touched), disk)

-----------------------------------------------------------------------------
(* handlers/chartHandlers: create_chart *)

\* String.prototype.toLowerCase
ToLowerCase(s) ==
    <<>> \o [i \in 1..Len(s) |-> IF IsUpper(s[i]) THEN s[i] + 32 ELSE s[i]]

\* String.prototype.includes
Includes(s, sub) ==
    \E i \in 1..(Len(s) - Len(sub) + 1) : SubSeq(s, i, i + Len(sub) - 1) = sub

\* 'line', 'bar', 'column', 'area', 'scatter', 'pie', 'doughnut', 'radar'
validTypes ==
    << <<108, 105, 110, 101>>, <<98, 97, 114>>,
       <<99, 111, 108, 117, 109, 110>>, <<97, 114, 101, 97>>,
       <<115, 99, 97, 116, 116, 101, 114>>, <<112, 105, 101>>,
       <<100, 111, 117, 103, 104, 110, 117, 116>>, <<114, 97, 100, 97, 114>> >>

validateChartType(chartType) ==
    LET lowerType == ToLowerCase(chartType)
        hits == {i \in 1..Len(validTypes) : Includes(lowerType, validTypes[i])}
    IN  IF \E i \in 1..Len(validTypes) : validTypes[i] = lowerType
        THEN [valid |-> TRUE, type |-> lowerType]
        ELSE IF hits # {}
        THEN [valid |-> TRUE, type |-> validTypes[Least(hits)]]
        ELSE [valid |-> FALSE, type |-> <<>>]

\* String(cell.value || `Row ${row}`), String(cell.value || `Column ${col}`)
labelOr(ws, row, col, fallback) ==
    IF Truthy(CellValue(ws, row, col)) THEN StringOf(CellValue(ws, row, col))
    ELSE fallback

chartTitles(ws, range) ==
    <<>> \o [i \in 1..Max(range.endRow - range.startRow, 0) |->
        labelOr(ws, range.startRow + i, range.startCol,
                <<82, 111, 119, 32>> \o NumberToString(range.startRow + i))]

chartFields(ws, range) ==
    <<>> \o [j \in 1..Max(range.endCol - range.startCol, 0) |->
        labelOr(ws, range.startRow, range.startCol + j,
                <<67, 111, 108, 117, 109, 110, 32>>
                    \o NumberToString(range.startCol + j))]

\* data[rowTitle][fieldName]: the number in the cell, 0 for any other value;
\* of two rows (columns) of one title (field) the later one stays
chartData(ws, range, titles, fields) ==
    [t \in {titles[i] : i \in 1..Len(titles)} |->
        [f \in {fields[j] : j \in 1..Len(fields)} |->
            LET i == Greatest({k \in 1..Len(titles) : titles[k] = t})
                j == Greatest({k \in 1..Len(fields) : fields[k] = f})
                value == CellValue(ws, range.startRow + i, range.startCol + j)
            IN  IF value.t = "number" THEN value ELSE Num(0)]]

\* the file xlsxChart.writeFile(opts) generates: a workbook of its own
\* with the table of titles, fields and data, and the chart
chartFile(opts) ==
    LET header == [p \in {<<1, j + 1>> : j \in 1..Len(opts.fields)} |->
                      Str(opts.fields[p[2] - 1])]
        labels == [p \in {<<i + 1, 1>> : i \in 1..Len(opts.titles)} |->
                      Str(opts.titles[p[1] - 1])]
        body == [p \in {<<i + 1, j + 1>> :
                          i \in 1..Len(opts.titles), j \in 1..Len(opts.fields)} |->
                    opts.data[opts.titles[p[1] - 1]][opts.fields[p[2] - 1]]]
        table == [name |-> "Table", values |-> header @@ labels @@ body,
                  rows |-> <<>> \o [r \in 1..(Len(opts.titles) + 1) |->
                                         Len(opts.fields) + 1]]
    IN  [exists |-> TRUE, sheets |-> <<SheetToFile(table)>>, chart |-> opts.chart]

\* the worksheet after the three scans of the data range called getCell
chartScan(ws, range) ==
    getCells(getCells(getCells(ws, range.startRow + 1, range.endRow,
                               range.startCol, range.startCol),
                      range.startRow, range.startRow,
                      range.startCol + 1, range.endCol),
             range.startRow + 1, range.endRow, range.startCol + 1, range.endCol)

handleCreateChart(args, io) ==
    LET fullPath == getExcelPath(args.filePath)
        ld == loadWorkbook(fullPath, io.read)
        wb == ld.heap[ld.h]
        si == getWorksheet(wb, args.sheetName)
        ws == wb.sheets[si]
        range == parseCellOrRange(args.dataRange)
        validChartType == validateChartType(args.chartType)
        titles == chartTitles(ws, range)
        fields == chartFields(ws, range)
        opts == [file |-> fullPath, chart |-> validChartType.type,
                 titles |-> titles, fields |-> fields,
                 data |-> chartData(ws, range, titles, fields)]
        hp == WithSheet(ld.heap, ld.h, si, chartScan(ws, range))
    IN  IF ld.code # ""
        THEN Thrown("create_chart", args, ld.code, ld.cache, ld.heap, disk)
        ELSE IF si = 0 \/ ~range.ok \/ ~validChartType.valid
        THEN Thrown("create_chart", args, "InvalidParams", ld.cache, ld.heap, disk)
        ELSE IF ~io.write
        THEN Thrown("create_chart", args, "InternalError", ld.cache, hp, disk)
        ELSE Returned("create_chart", args, "chart created", <<>>, ld.cache, hp,
                      [disk EXCEPT ![FileOf(fullPath)] = chartFile(opts)])

-----------------------------------------------------------------------------
(* handlers/pivotHandlers: create_pivot_table *)

\* 'sum', 'count', 'average', 'max', 'min', 'product', 'countNums',
\* 'stdDev', 'stdDevp', 'var', 'varp'
validFuncs ==
    <<
       <<115, 117, 109>>, <<99, 111, 117, 110, 116>>,
       <<97, 118, 101, 114, 97, 103, 101>>, <<109, 97, 120>>,
       <<109, 105, 110>>, <<112, 114, 111, 100, 117, 99, 116>>,
       <<99, 111, 117, 110, 116, 78, 117, 109, 115>>,
       <<115, 116, 100, 68, 101, 118>>, <<115, 116, 100, 68, 101, 118, 112>>,
       <<118, 97, 114>>, <<118, 97, 114, 112>> >>

\* 'mean': 'average', 'avg': 'average', 'total': 'sum', 'add': 'sum',
\* 'maximum': 'max', 'minimum': 'min', 'multiply': 'product'
funcMap ==
    <<
       <<<<109, 101, 97, 110>>, <<97, 118, 101, 114, 97, 103, 101>>>>,
       <<<<97, 118, 103>>, <<97, 118, 101, 114, 97, 103, 101>>>>,
       <<<<116, 111, 116, 97, 108>>, <<115, 117, 109>>>>,
       <<<<97, 100, 100>>, <<115, 117, 109>>>>,
       <<<<109, 97, 120, 105, 109, 117, 109>>, <<109, 97, 120>>>>,
       <<<<109, 105, 110, 105, 109, 117, 109>>, <<109, 105, 110>>>>,
       <<<<109, 117, 108, 116, 105, 112, 108, 121>>, <<112, 114, 111, 100, 117, 99, 116>>>> >>

validateAggFunc(aggFunc) ==
    LET lowerFunc == ToLowerCase(aggFunc)
        hits == {i \in 1..Len(validFuncs) : Includes(lowerFunc, validFuncs[i])}
        mapped == {i \in 1..Len(funcMap) : funcMap[i][1] = lowerFunc}
    IN  IF \E i \in 1..Len(validFuncs) : validFuncs[i] = lowerFunc
        THEN [valid |-> TRUE, func |-> lowerFunc]
        ELSE IF hits # {}
        THEN [valid |-> TRUE, func |-> validFuncs[Least(hits)]]
        ELSE IF mapped # {}
        THEN [valid |-> TRUE, func |-> funcMap[Least(mapped)][2]]
        ELSE [valid |-> FALSE, func |-> <<>>]

\* Array.prototype.join(', ')
RECURSIVE JoinComma(_)
JoinComma(items) ==
    IF Len(items) = 0 THEN <<>>
    ELSE IF Len(items) = 1 THEN items[1]
    ELSE items[1] \o <<44, 32>> \o JoinComma(Tail(items))

\* columns?.join(', ') || '(none)'
JoinOrNone(items) ==
    IF items = NoText \/ JoinComma(items) = <<>>
    THEN <<40, 110, 111, 110, 101, 41>>
    ELSE JoinComma(items)

\* the lines of the response text after its first line
pivotText(args, func) ==
    << <<45, 32, 68, 97, 116, 97, 32, 114, 97, 110, 103, 101, 58, 32>>
           \o args.dataRange,
       <<45, 32, 82, 111, 119, 115, 58, 32>> \o JoinComma(args.rows),
       <<45, 32, 67, 111, 108, 117, 109, 110, 115, 58, 32>>
           \o JoinOrNone(args.columns),
       <<45, 32, 86, 97, 108, 117, 101, 115, 58, 32>>
           \o JoinComma(args.values),
       <<45, 32, 65, 103, 103, 114, 101, 103, 97, 116, 105, 111, 110, 32, 102, 117, 110, 99, 116, 105, 111, 110, 58, 32>>
           \o func >>

\* the aggFunc argument, 'sum' when it is left out
aggFuncOf(args) ==
    IF args.aggFunc = NoText THEN <<115, 117, 109>> ELSE args.aggFunc

\* handleCreatePivotTable reading the cells of the data range, as the
\* construction of a pivot table would
handleCreatePivotTableScan(args, io) ==
    LET fullPath == getExcelPath(args.filePath)
        ld == loadWorkbook(fullPath, io.read)
        wb == ld.heap[ld.h]
        si == getWorksheet(wb, args.sheetName)
        range == parseCellOrRange(args.dataRange)
        validAggFunc == validateAggFunc(aggFuncOf(args))
        hp == WithSheet(ld.heap, ld.h, si,
                        getCells(wb.sheets[si], range.startRow, range.endRow,
                                 range.startCol, range.endCol))
    IN  IF ld.code # ""
        THEN Thrown("create_pivot_table", args, ld.code, ld.cache, ld.heap, disk)
        ELSE IF si = 0 \/ ~range.ok \/ ~validAggFunc.valid
        THEN Thrown("create_pivot_table", args, "InvalidParams",
                    ld.cache, ld.heap, disk)
        ELSE IF ~io.write
        THEN Thrown("create_pivot_table", args, "InternalError",
                    ld.cache, hp, disk)
        ELSE Returned("create_pivot_table", args, "pivot table created",
                      pivotText(args, validAggFunc.func), ld.cache, hp,
                      writeFile(disk, fullPath, hp[ld.h]))

handleCreatePivotTable(args, io) ==
    LET fullPath == getExcelPath(args.filePath)
        ld == loadWorkbook(fullPath, io.read)
        wb == ld.heap[ld.h]
        si == getWorksheet(wb, args.sheetName)
        range == parseCellOrRange(args.dataRange)
        validAggFunc == validateAggFunc(aggFuncOf(args))
    IN  IF ld.code # ""
        THEN Thrown("create_pivot_table", args, ld.code, ld.cache, ld.heap, disk)
        ELSE IF si = 0 \/ ~range.ok \/ ~validAggFunc.valid
        THEN Thrown("create_pivot_table", args, "InvalidParams",
                    ld.cache, ld.heap, disk)
        ELSE IF ~io.write
        THEN Thrown("create_pivot_table", args, "InternalError",
                    ld.cache, ld.heap, disk)
        ELSE Returned("create_pivot_table", args, "pivot table created",
                      pivotText(args, validAggFunc.func), ld.cache, ld.heap,
                      writeFile(disk, fullPath, wb))

-----------------------------------------------------------------------------
(* handlers/formulaHandlers: apply_formula, validate_formula_syntax *)

\* the characters String.prototype.trim removes, of those the texts have
Whitespace == {9, 10, 13, 32}

\* '+', '-', '*', '/'
Operators == {43, 45, 42, 47}

\* (text.match(/c/g) || []).length
CountOf(text, c) == Cardinality({i \in 1..Len(text) : text[i] = c})

\* formula.startsWith('=') ? formula.substring(1) : formula
formulaContentOf(formula) ==
    IF Len(formula) > 0 /\ formula[1] = 61 THEN Tail(formula) ELSE formula

\* validateFormula with the test of the parentheses left out
validateFormulaNoParens(formula) ==
    LET formulaContent == formulaContentOf(formula)
    IN  IF formula = NoText \/ \A i \in 1..Len(formula) : formula[i] \in Whitespace
        THEN [valid |-> FALSE, error |-> "Formula is empty"]
        ELSE IF CountOf(formulaContent, 34) % 2 # 0
        THEN [valid |-> FALSE, error |-> "Mismatched quotation marks"]
        ELSE IF formulaContent # <<>>
                /\ formulaContent[Len(formulaContent)] \in Operators
        THEN [valid |-> FALSE, error |-> "Formula ends with an operator"]
        ELSE IF \E i \in 1..(Len(formulaContent) - 1) :
                    /\ formulaContent[i] \in Operators
                    /\ formulaContent[i + 1] \in Operators
        THEN [valid |-> FALSE, error |-> "Consecutive operators"]
        ELSE [valid |-> TRUE, error |-> ""]

\* validateFormula(formula): the unknown function names are only logged
validateFormula(formula) ==
    LET formulaContent == formulaContentOf(formula)
    IN  IF formula = NoText \/ \A i \in 1..Len(formula) : formula[i] \in Whitespace
        THEN [valid |-> FALSE, error |-> "Formula is empty"]
        ELSE IF CountOf(formulaContent, 40) # CountOf(formulaContent, 41)
        THEN [valid |-> FALSE, error |-> "Mismatched parentheses"]
        ELSE IF CountOf(formulaContent, 34) % 2 # 0
        THEN [valid |-> FALSE, error |-> "Mismatched quotation marks"]
        ELSE IF formulaContent # <<>>
                /\ formulaContent[Len(formulaContent)] \in Operators
        THEN [valid |-> FALSE, error |-> "Formula ends with an operator"]
        ELSE IF \E i \in 1..(Len(formulaContent) - 1) :
                    /\ formulaContent[i] \in Operators
                    /\ formulaContent[i + 1] \in Operators
        THEN [valid |-> FALSE, error |-> "Consecutive operators"]
        ELSE [valid |-> TRUE, error |-> ""]

\* the function names of the allow-list: SUM, AVERAGE, COUNT, MAX, MIN, IF,
\* AND, OR, NOT, VLOOKUP, ... , XLOOKUP, XMATCH, LET, LAMBDA
knownFunctions ==
    {
      <<83, 85, 77>>, <<65, 86, 69, 82, 65, 71, 69>>, <<67, 79, 85, 78, 84>>,
      <<77, 65, 88>>, <<77, 73, 78>>, <<73, 70>>, <<65, 78, 68>>, <<79, 82>>,
      <<78, 79, 84>>, <<86, 76, 79, 79, 75, 85, 80>>,
      <<72, 76, 79, 79, 75, 85, 80>>, <<73, 78, 68, 69, 88>>,
      <<77, 65, 84, 67, 72>>, <<67, 79, 78, 67, 65, 84, 69, 78, 65, 84, 69>>,
      <<76, 69, 70, 84>>, <<82, 73, 71, 72, 84>>, <<77, 73, 68>>,
      <<76, 69, 78>>, <<70, 73, 78, 68>>, <<83, 69, 65, 82, 67, 72>>,
      <<83, 85, 66, 83, 84, 73, 84, 85, 84, 69>>, <<85, 80, 80, 69, 82>>,
      <<76, 79, 87, 69, 82>>, <<80, 82, 79, 80, 69, 82>>,
      <<84, 79, 68, 65, 89>>, <<78, 79, 87>>, <<68, 65, 84, 69>>,
      <<89, 69, 65, 82>>, <<77, 79, 78, 84, 72>>, <<68, 65, 89>>,
      <<72, 79, 85, 82>>, <<77, 73, 78, 85, 84, 69>>,
      <<83, 69, 67, 79, 78, 68>>, <<82, 79, 85, 78, 68>>,
      <<82, 79, 85, 78, 68, 85, 80>>, <<82, 79, 85, 78, 68, 68, 79, 87, 78>>,
      <<73, 78, 84>>, <<65, 66, 83>>, <<83, 81, 82, 84>>,
      <<80, 79, 87, 69, 82>>, <<77, 79, 68>>, <<83, 85, 77, 73, 70>>,
      <<67, 79, 85, 78, 84, 73, 70>>, <<65, 86, 69, 82, 65, 71, 69, 73, 70>>,
      <<83, 85, 77, 73, 70, 83>>, <<67, 79, 85, 78, 84, 73, 70, 83>>,
      <<65, 86, 69, 82, 65, 71, 69, 73, 70, 83>>,
      <<73, 70, 69, 82, 82, 79, 82>>, <<73, 70, 78, 65>>, <<73, 70, 83>>,
      <<83, 87, 73, 84, 67, 72>>, <<67, 72, 79, 79, 83, 69>>,
      <<73, 78, 68, 73, 82, 69, 67, 84>>, <<79, 70, 70, 83, 69, 84>>,
      <<82, 79, 87>>, <<67, 79, 76, 85, 77, 78>>, <<82, 79, 87, 83>>,
      <<67, 79, 76, 85, 77, 78, 83>>, <<84, 82, 65, 78, 83, 80, 79, 83, 69>>,
      <<85, 78, 73, 81, 85, 69>>, <<83, 79, 82, 84>>,
      <<70, 73, 76, 84, 69, 82>>, <<82, 65, 78, 68, 65, 82, 82, 65, 89>>,
      <<83, 69, 81, 85, 69, 78, 67, 69>>, <<88, 76, 79, 79, 75, 85, 80>>,
      <<88, 77, 65, 84, 67, 72>>, <<76, 69, 84>>, <<76, 65, 77, 66, 68, 65>> }

\* a character of [A-Za-z0-9_]
IsWordChar(c) == IsLetter(c) \/ IsDigit(c) \/ c = 95

\* the matches of /[A-Za-z0-9_]+\(/g without their '(', in upper case
functionNames(formulaContent) ==
    {<<>> \o [k \in 1..(q[2] - q[1]) |->
                ToUpperCase(formulaContent[q[1] + k - 1])] :
        q \in {p \in (1..Len(formulaContent)) \X (1..Len(formulaContent)) :
            /\ p[1] < p[2]
            /\ formulaContent[p[2]] = 40
            /\ \A j \in p[1]..(p[2] - 1) : IsWordChar(formulaContent[j])
            /\ (p[1] = 1 \/ ~IsWordChar(formulaContent[p[1] - 1]))}}

\* the names validateFormula passes to console.warn
unknownFunctions(formula) ==
    IF ~validateFormula(formula).valid THEN {}
    ELSE functionNames(formulaContentOf(formula)) \ knownFunctions

\* the cell value { formula: ... }
FormulaValue(text) == [t |-> "formula", s |-> text]

\* handleApplyFormula writing the cell before it validates the formula
handleApplyFormulaWriteFirst(args, io) ==
    LET fullPath == getExcelPath(args.filePath)
        ld == loadWorkbook(fullPath, io.read)
        wb == ld.heap[ld.h]
        si == getWorksheet(wb, args.sheetName)
        validationResult == validateFormula(args.formula)
        coord == cellRefToCoordinate(args.cell)
        hp == WithSheet(ld.heap, ld.h, si,
                        SetCellValue(wb.sheets[si], coord.row, coord.col,
                                     FormulaValue(formulaContentOf(args.formula))))
    IN  IF ld.code # ""
        THEN Thrown("apply_formula", args, ld.code, ld.cache, ld.heap, disk)
        ELSE IF si = 0 \/ ~coord.ok
        THEN Thrown("apply_formula", args, "InvalidParams", ld.cache, ld.heap,
                    disk)
        ELSE IF ~validationResult.valid
        THEN Thrown("apply_formula", args, "InvalidParams", ld.cache, hp, disk)
        ELSE IF ~io.write
        THEN Thrown("apply_formula", args, "InternalError", ld.cache, hp, disk)
        ELSE Returned("apply_formula", args, "applied", <<>>, ld.cache, hp,
                      writeFile(disk, fullPath, hp[ld.h]))

handleApplyFormula(args, io) ==
    LET fullPath == getExcelPath(args.filePath)
        ld == loadWorkbook(fullPath, io.read)
        wb == ld.heap[ld.h]
        si == getWorksheet(wb, args.sheetName)
        validationResult == validateFormula(args.formula)
        coord == cellRefToCoordinate(args.cell)
        hp == WithSheet(ld.heap, ld.h, si,
                        SetCellValue(wb.sheets[si], coord.row, coord.col,
                                     FormulaValue(formulaContentOf(args.formula))))
    IN  IF ld.code # ""
        THEN Thrown("apply_formula", args, ld.code, ld.cache, ld.heap, disk)
        ELSE IF si = 0 \/ ~validationResult.valid \/ ~coord.ok
        THEN Thrown("apply_formula", args, "InvalidParams", ld.cache, ld.heap,
                    disk)
        ELSE IF ~io.write
        THEN Thrown("apply_formula", args, "InternalError", ld.cache, hp, disk)
        ELSE Returned("apply_formula", args, "applied", <<>>, ld.cache, hp,
                      writeFile(disk, fullPath, hp[ld.h]))

\* the response text is "is valid" or "Formula error: " and the error
handleValidateFormulaSyntax(args, io) ==
    LET fullPath == getExcelPath(args.filePath)
        ld == loadWorkbook(fullPath, io.read)
        si == getWorksheet(ld.heap[ld.h], args.sheetName)
        validationResult == validateFormula(args.formula)
    IN  IF ld.code # ""
        THEN Thrown("validate_formula_syntax", args, ld.code, ld.cache,
                    ld.heap, disk)
        ELSE IF si = 0
        THEN Thrown("validate_formula_syntax", args, "InvalidParams",
                    ld.cache, ld.heap, disk)
        ELSE Returned("validate_formula_syntax", args,
                      IF validationResult.valid THEN "is valid"
                      ELSE "Formula error", <<validationResult.error>>,
                      ld.cache, ld.heap, disk)

-----------------------------------------------------------------------------
(* handlers/rangeHandlers: copy_range *)

\* `${sourceStart}:${sourceEnd}`
copyRangeText(args) == args.sourceStart \o <<COLON>> \o args.sourceEnd

\* the two loops "for (let i = 0; i < rowCount; i++) for (let j = 0;
\* j < colCount; j++)" from (i, j) on: the source cell is read from the
\* worksheet as the loop has left it and its value given to the target cell
RECURSIVE copyCells(_, _, _, _, _, _, _)
copyCells(wb, ssi, tsi, sourceRange, targetStartCoord, i, j) ==
    IF i >= sourceRange.endRow - sourceRange.startRow + 1 THEN wb
    ELSE IF j >= sourceRange.endCol - sourceRange.startCol + 1
    THEN copyCells(wb, ssi, tsi, sourceRange, targetStartCoord, i + 1, 0)
    ELSE LET got == [wb EXCEPT !.sheets[ssi] =
                        getCell(@, sourceRange.startRow + i,
                                sourceRange.startCol + j)]
             value == CellValue(got.sheets[ssi], sourceRange.startRow + i,
                                sourceRange.startCol + j)
         IN  copyCells([got EXCEPT !.sheets[tsi] =
                           SetCellValue(@, targetStartCoord.row + i,
                                        targetStartCoord.col + j, value)],
                       ssi, tsi, sourceRange, targetStartCoord, i, j + 1)

handleCopyRange(args, io) ==
    LET fullPath == getExcelPath(args.filePath)
        ld == loadWorkbook(fullPath, io.read)
        wb == ld.heap[ld.h]
        ssi == getWorksheet(wb, args.sheetName)
        tsi == IF args.targetSheet # NoArg /\ args.targetSheet # ""
               THEN getWorksheet(wb, args.targetSheet) ELSE ssi
        sourceRange == parseCellOrRange(copyRangeText(args))
        targetStartCoord == cellRefToCoordinate(args.targetStart)
        hp == [ld.heap EXCEPT ![ld.h] =
                  copyCells(wb, ssi, tsi, sourceRange, targetStartCoord, 0, 0)]
    IN  IF ld.code # ""
        THEN Thrown("copy_range", args, ld.code, ld.cache, ld.heap, disk)
        ELSE IF ssi = 0 \/ tsi = 0 \/ ~sourceRange.ok \/ ~targetStartCoord.ok
        THEN Thrown("copy_range", args, "InvalidParams", ld.cache, ld.heap,
                    disk)
        ELSE IF ~io.write
        THEN Thrown("copy_range", args, "InternalError", ld.cache, hp, disk)
        ELSE Returned("copy_range", args, "copied", <<>>, ld.cache, hp,
                      writeFile(disk, fullPath, hp[ld.h]))

-----------------------------------------------------------------------------
(* handlers/workbookHandlers: get_workbook_metadata *)

\* the used range of a worksheet: the last row with values and the last
\* column with a value, or none
usedRange(ws) ==
    IF DOMAIN ws.values = {} THEN <<>>
    ELSE <<[startRow |-> 1, startColumn |-> 1,
            endRow |-> Greatest({p[1] : p \in DOMAIN ws.values}),
            endColumn |-> Greatest({p[2] : p \in DOMAIN ws.values})]>>

\* sheetInfo of one worksheet
sheetInfo(ws, includeRanges) ==
    [name |-> ws.name, rowCount |-> rowCount(ws),
     columnCount |-> columnCount(ws),
     usedRange |-> IF includeRanges THEN usedRange(ws) ELSE <<>>]

handleGetWorkbookMetadata(args, io) ==
    LET fullPath == getExcelPath(args.filePath)
        ld == loadWorkbook(fullPath, io.read)
        wb == ld.heap[ld.h]
    IN  IF ld.code # ""
        THEN Thrown("get_workbook_metadata", args, ld.code, ld.cache, ld.heap,
                    disk)
        ELSE Returned("get_workbook_metadata", args, "metadata",
                      <<>> \o [i \in 1..Len(wb.sheets) |->
                                  sheetInfo(wb.sheets[i], args.includeRanges)],
                      ld.cache, ld.heap, disk)

-----------------------------------------------------------------------------
(* excelServer: the dispatcher of the CallToolRequestSchema handler *)

CallTool(name, args, io) ==
    CASE name = "read_excel" -> handleReadExcel(args, io)
      [] name = "write_excel" -> handleWriteExcel(args, io)
      [] name = "create_sheet" -> handleCreateSheet(args, io)
      [] name = "create_excel" -> handleCreateExcel(args, io)
      [] name = "rename_worksheet" -> handleRenameWorksheet(args, io)
      [] name = "delete_worksheet" -> handleDeleteWorksheet(args, io)
      [] name = "copy_worksheet" -> handleCopyWorksheet(args, io)
      [] name = "validate_excel_range" -> handleValidateExcelRange(args, io)
      [] name = "create_chart" -> handleCreateChart(args, io)
      [] name = "get_workbook_metadata" ->
             handleGetWorkbookMetadata(args, io)
      [] name = "copy_range" -> handleCopyRange(args, io)
      [] name = "create_pivot_table" -> handleCreatePivotTable(args, io)
      [] name = "apply_formula" -> handleApplyFormula(args, io)
      [] name = "validate_formula_syntax" ->
             handleValidateFormulaSyntax(args, io)
      [] OTHER -> Thrown(name, args, "MethodNotFound", cache, heap, disk)

\* the Workbook objects still referenced, by the cache or by a suspended
\* call; the others are garbage
Collect(hp, c, cl) ==
    [h \in Handles |->
        IF (\E k \in CacheKeys : c[k] = h) \/ (\E i \in DOMAIN cl : cl[i].h = h)
        THEN hp[h] ELSE NoWorkbook]

\* one tool call run from the request to the response
Serve(name, args, io) ==
    \E out \in {CallTool(name, args, io)} :
        /\ cache' = out.cache
        /\ heap' = Collect(out.heap, out.cache, calls)
        /\ disk' = out.disk
        /\ resp' = out.resp
        /\ UNCHANGED <<calls, codec>>

-----------------------------------------------------------------------------
(* Texts of the arguments *)

A1 == <<65, 49>>
A2 == <<65, 50>>
B1 == <<66, 49>>
B2 == <<66, 50>>
A1toB2 == <<65, 49, 58, 66, 50>>
B2toA1 == <<66, 50, 58, 65, 49>>
A1dashC3 == <<65, 49, 45, 67, 51>>
OnlyDigits == <<49, 50>>
TextX == <<120>>
TextY == <<121>>
TextColumn == <<99, 111, 108, 117, 109, 110>>
TextPieChart == <<80, 105, 101, 32, 67, 104, 97, 114, 116>>
TextGantt == <<103, 97, 110, 116, 116>>

-----------------------------------------------------------------------------
(* The state machine of the server: tool calls served one after another,   *)
(* and the file system changed from outside in between.                    *)

NoCodec == [kind |-> "none"]
NoResp == [tool |-> "", args |-> <<>>, status |-> "ok", code |-> "",
           text |-> "", data |-> <<>>]

ServerInit ==
    /\ cache = [k \in CacheKeys |-> NoHandle]
    /\ heap = [h \in Handles |-> NoWorkbook]
    /\ disk = [f \in Files |-> NoFile]
    /\ resp = NoResp
    /\ calls = <<>>

Init == ServerInit /\ codec = NoCodec

\* the outcomes of the awaited file reads and writes of one call
ReadIO == [read : BOOLEAN, write : {TRUE}]
WriteIO == [read : {TRUE}, write : BOOLEAN]
NoIO == [read : {TRUE}, write : {TRUE}]

\* the arguments the tool calls are drawn from
ToolFilePaths == {RelativeArg}
SheetNames == {"Sheet1", "Data"}

ReadExcelArgs ==
    [filePath : ToolFilePaths, sheetName : {NoArg}, range : {A1toB2},
     previewOnly : {FALSE}]

TableXY ==
    [isArray |-> TRUE,
     items |-> <<ArrayItem(<<Str(TextX), Str(TextY)>>),
                 ArrayItem(<<Num(1), Num(2)>>)>>]

WriteExcelArgs ==
    [filePath : ToolFilePaths, sheetName : {NoArg}, data : {TableXY},
     startCell : {A1}, writeHeaders : {FALSE}]

CreateExcelArgs == [filePath : ToolFilePaths, sheetName : {NoArg, "Data"}]
CreateSheetArgs == [filePath : ToolFilePaths, sheetName : SheetNames]
RenameWorksheetArgs ==
    [filePath : ToolFilePaths, oldName : SheetNames, newName : SheetNames]
DeleteWorksheetArgs == [filePath : ToolFilePaths, sheetName : SheetNames]
CopyWorksheetArgs ==
    [filePath : ToolFilePaths, sourceSheet : SheetNames, targetSheet : SheetNames]
ValidateExcelRangeArgs ==
    [filePath : ToolFilePaths, sheetName : {NoArg},
     startCell : {A1, A1dashC3}, endCell : {<<>>}]
CreateChartArgs ==
    [filePath : ToolFilePaths, sheetName : {NoArg}, dataRange : {A1toB2},
     chartType : {TextColumn}]

\* the sheets of the workbook the path is cached for (none when it is not)
SheetCount(filePath) ==
    IF cache[getExcelPath(filePath)] = NoHandle THEN 0
    ELSE Len(heap[cache[getExcelPath(filePath)]].sheets)

\* the cached workbook of the path has a sheet of that name
HasSheet(filePath, name) ==
    /\ cache[getExcelPath(filePath)] # NoHandle
    /\ getWorksheetByName(heap[cache[getExcelPath(filePath)]], name) # 0

ReadExcel ==
    \E args \in ReadExcelArgs, io \in ReadIO : Serve("read_excel", args, io)
WriteExcel ==
    \E args \in WriteExcelArgs, io \in IO : Serve("write_excel", args, io)
CreateExcel ==
    \E args \in CreateExcelArgs, io \in WriteIO : Serve("create_excel", args, io)
CreateSheet ==
    \E args \in CreateSheetArgs, io \in IO :
        /\ \/ SheetCount(args.filePath) < MaxSheets
           \/ HasSheet(args.filePath, args.sheetName)
        /\ Serve("create_sheet", args, io)
RenameWorksheet ==
    \E args \in RenameWorksheetArgs, io \in IO :
        Serve("rename_worksheet", args, io)
DeleteWorksheet ==
    \E args \in DeleteWorksheetArgs, io \in IO :
        Serve("delete_worksheet", args, io)
CopyWorksheet ==
    \E args \in CopyWorksheetArgs, io \in IO :
        /\ \/ SheetCount(args.filePath) < MaxSheets
           \/ HasSheet(args.filePath, args.targetSheet)
        /\ Serve("copy_worksheet", args, io)
ValidateExcelRange ==
    \E args \in ValidateExcelRangeArgs, io \in ReadIO :
        Serve("validate_excel_range", args, io)
CreateChart ==
    \E args \in CreateChartArgs, io \in IO : Serve("create_chart", args, io)
UnknownTool ==
    \E f \in ToolFilePaths, io \in NoIO :
        Serve("no_such_tool", [filePath |-> f], io)

\* the file system changed by another program: the file removed, or
\* replaced by some other well-formed workbook file
ExternalFile ==
    WorkbookToFile(addWorksheet(NewWorkbook, "Sheet1"))

External(tool, f, content) ==
    /\ disk' = [disk EXCEPT ![f] = content]
    /\ resp' = [NoResp EXCEPT !.tool = tool, !.args = [file |-> f]]
    /\ UNCHANGED <<cache, heap, calls, codec>>

ExternalDelete == \E f \in Files : disk[f].exists /\ External("(unlink)", f, NoFile)
ExternalWrite == \E f \in Files : External("(overwrite)", f, ExternalFile)

Next ==
    \/ ReadExcel
    \/ WriteExcel
    \/ CreateExcel
    \/ CreateSheet
    \/ RenameWorksheet
    \/ DeleteWorksheet
    \/ CopyWorksheet
    \/ ValidateExcelRange
    \/ CreateChart
    \/ UnknownTool
    \/ ExternalDelete
    \/ ExternalWrite

Spec == Init /\ [][Next]_vars

-----------------------------------------------------------------------------
(* Properties of the tool calls served one after another (Spec).  The last *)
(* call and its outcome are in resp; a step of a tool call is recognised   *)
(* by resp' and judged against the state before it.                        *)

\* the tools of the dispatcher that are modelled
Tools ==
    {"read_excel", "write_excel", "create_sheet", "create_excel",
     "rename_worksheet", "delete_worksheet", "copy_worksheet",
     "validate_excel_range", "create_chart"}

\* the names of a list of sheets, in order
NamesOf(sheets) == <<>> \o [i \in 1..Len(sheets) |-> sheets[i].name]
NameSet(sheets) == {sheets[i].name : i \in 1..Len(sheets)}

\* the sheets of the workbook a call on path k works on: those of the
\* cached workbook, or else of the file the call loads
SheetsAt(k) ==
    IF cache[k] # NoHandle THEN heap[cache[k]].sheets ELSE disk[FileOf(k)].sheets

\* the step is a call of tool that got its workbook (from the cache or by
\* loading the file)
CallOn(tool) ==
    /\ resp'.tool = tool
    /\ cache'[getExcelPath(resp'.args.filePath)] # NoHandle

\* the sheets of that workbook after the step
SheetsAfter == heap'[cache'[getExcelPath(resp'.args.filePath)]].sheets

Failed(code) == resp'.status = "error" /\ resp'.code = code

\* the path of the last call
LastPath == getExcelPath(resp.args.filePath)

\* the cells of a workbook: the name and the values of every sheet
CellsOf(wb) ==
    <<>> \o [i \in 1..Len(wb.sheets) |->
                [name |-> wb.sheets[i].name, values |-> wb.sheets[i].values]]

\* the steps that write no cell and change no sheet list: the reading tools,
\* an unknown tool, and the file system changed from outside
NonWriting ==
    {"read_excel", "validate_excel_range", "create_chart", "no_such_tool",
     "(unlink)", "(overwrite)"}

\* C1 as stated: no tool call ever removes or replaces a cache entry.
C1_NeverReplaced ==
    [][\A k \in CacheKeys : cache[k] # NoHandle => cache'[k] = cache[k]]_vars

\* C1, amended: a cache entry is never removed, and it is replaced only by
\* a create_excel that succeeds on its path, which takes the file to be
\* gone from disk; every other call on the path gets the cached handle
\* without re-reading the file, so whatever happens to the file, the cells
\* of the cached workbook stay as the tool calls wrote them.
C1_CacheEntriesKept ==
    [][\A k \in CacheKeys :
           cache[k] # NoHandle =>
               /\ cache'[k] # NoHandle
               /\ cache'[k] # cache[k] =>
                      /\ resp'.tool = "create_excel"
                      /\ resp'.status = "ok"
                      /\ getExcelPath(resp'.args.filePath) = k
                      /\ ~existsSync(k)
               /\ (cache'[k] = cache[k] /\ resp'.tool \in NonWriting) =>
                      CellsOf(heap'[cache[k]]) = CellsOf(heap[cache[k]])]_vars

\* read_excel returned the row written earlier although the file is gone
C1_Witness ==
    /\ resp.tool = "read_excel"
    /\ resp.status = "ok"
    /\ Len(resp.data) = 1
    /\ resp.data[1] = (TextX :> Num(1)) @@ (TextY :> Num(2))
    /\ ~disk[FileOf(LastPath)].exists

\* the tools that change a workbook
MutatingTools ==
    {"write_excel", "create_sheet", "create_excel", "rename_worksheet",
     "delete_worksheet", "copy_worksheet", "create_chart"}

\* C3 as stated: after every successful mutating tool call the file at the
\* canonical path holds exactly the content of the cached workbook of that
\* path.
C3_FileIsCachedWorkbook ==
    (resp.tool \in MutatingTools /\ resp.status = "ok") =>
        /\ cache[LastPath] # NoHandle
        /\ disk[FileOf(LastPath)] = WorkbookToFile(heap[cache[LastPath]])

\* C6: create_excel on a path where a file exists fails with InvalidParams
\* and changes neither the file nor the cache; on a path without a file it
\* creates the file with exactly one sheet (sheetName, default "Sheet1") and
\* caches that workbook under the resolved path, the cache being set only
\* when the file was written; the next tool call on the path works on the
\* cached workbook.
C6_CreateExcel ==
    [][/\ resp'.tool = "create_excel" =>
              LET k == getExcelPath(resp'.args.filePath)
                  name == IF resp'.args.sheetName = NoArg THEN "Sheet1"
                          ELSE resp'.args.sheetName
              IN  /\ existsSync(k) =>
                         /\ Failed("InvalidParams")
                         /\ disk' = disk
                         /\ cache' = cache
                         /\ heap' = heap
                  /\ (~existsSync(k) /\ resp'.status = "ok") =>
                         /\ disk'[FileOf(k)].exists
                         /\ NamesOf(disk'[FileOf(k)].sheets) = <<name>>
                         /\ cache'[k] # NoHandle
                         /\ NamesOf(heap'[cache'[k]].sheets) = <<name>>
                         /\ disk'[FileOf(k)] = WorkbookToFile(heap'[cache'[k]])
                  /\ (~existsSync(k) /\ resp'.status = "error") =>
                         /\ disk' = disk
                         /\ cache' = cache
       /\ (/\ resp.tool = "create_excel"
           /\ resp.status = "ok"
           /\ resp'.tool \in Tools
           /\ getExcelPath(resp'.args.filePath) = LastPath) =>
              cache'[LastPath] = cache[LastPath]]_vars

\* create_excel was refused on a path whose file exists
C6_Witness ==
    /\ resp.tool = "create_excel"
    /\ resp.status = "error"
    /\ resp.code = "InvalidParams"
    /\ disk[FileOf(LastPath)].exists

\* the name create_sheet, rename_worksheet or copy_worksheet asks for
RequestedName(tool, args) ==
    CASE tool = "create_sheet" -> args.sheetName
      [] tool = "rename_worksheet" -> args.newName
      [] tool = "copy_worksheet" -> args.targetSheet

\* the sheet names of every workbook are pairwise distinct
DistinctNames ==
    \A h \in Handles :
        \A i, j \in 1..Len(heap[h].sheets) :
            heap[h].sheets[i].name = heap[h].sheets[j].name => i = j

\* C7: create_sheet (sheetName), rename_worksheet (newName) and
\* copy_worksheet (targetSheet) fail with InvalidParams when the requested
\* name is already the name of a sheet of the workbook, leaving the sheet
\* list unchanged and persisting nothing; the sheet names of a workbook are
\* pairwise distinct after any sequence of tool calls.
C7_NameCollision ==
    /\ [][\A tool \in {"create_sheet", "rename_worksheet", "copy_worksheet"} :
              (/\ CallOn(tool)
               /\ RequestedName(tool, resp'.args)
                      \in NameSet(SheetsAt(getExcelPath(resp'.args.filePath)))) =>
                  /\ Failed("InvalidParams")
                  /\ SheetsAfter = SheetsAt(getExcelPath(resp'.args.filePath))
                  /\ disk' = disk]_vars
    /\ []DistinctNames

\* copy_worksheet was refused because the target name is taken by another
\* sheet of the workbook
C7_Witness ==
    /\ resp.tool = "copy_worksheet"
    /\ resp.status = "error"
    /\ resp.code = "InvalidParams"
    /\ cache[LastPath] # NoHandle
    /\ resp.args.sourceSheet # resp.args.targetSheet
    /\ {resp.args.sourceSheet, resp.args.targetSheet}
           \subseteq NameSet(heap[cache[LastPath]].sheets)

\* no cached workbook is without sheets
NeverEmpty == \A h \in Handles : heap[h].live => Len(heap[h].sheets) >= 1

\* C8: delete_worksheet fails when the named sheet is the only sheet of the
\* workbook; otherwise it removes exactly that sheet and no other; no
\* sequence of tool calls leaves a cached workbook with zero sheets.
C8_DeleteWorksheet ==
    /\ [][CallOn("delete_worksheet") =>
              LET before == SheetsAt(getExcelPath(resp'.args.filePath))
                  name == resp'.args.sheetName
              IN  /\ (name \in NameSet(before) /\ Len(before) = 1) =>
                         /\ resp'.status = "error"
                         /\ SheetsAfter = before
                         /\ disk' = disk
                  /\ (name \in NameSet(before) /\ Len(before) > 1
                        /\ resp'.status = "ok") =>
                         /\ SheetsAfter =
                                SelectSeq(before, LAMBDA sh : sh.name # name)
                         /\ Len(SheetsAfter) = Len(before) - 1
                         /\ disk'[FileOf(getExcelPath(resp'.args.filePath))].sheets
                                = WorkbookToFile([live |-> TRUE,
                                                  sheets |-> SheetsAfter]).sheets]_vars
    /\ []NeverEmpty

\* delete_worksheet was refused for the only sheet of the workbook
C8_Witness ==
    /\ resp.tool = "delete_worksheet"
    /\ resp.status = "error"
    /\ cache[LastPath] # NoHandle
    /\ NamesOf(heap[cache[LastPath]].sheets) = <<resp.args.sheetName>>



-----------------------------------------------------------------------------
(* The address codec on its own: a column number or a text is drawn, and   *)
(* the codec functions are applied to it.                                  *)

\* the characters the texts are made of: A Z b 0 1 2 : -
CodecChars == {65, 90, 98, 48, 49, 50, COLON, 45}
CodecTexts == UNION {[1..k -> CodecChars] : k \in 0..MaxTextLen}

\* s.toUpperCase()
UpperText(s) == <<>> \o [i \in 1..Len(s) |-> ToUpperCase(s[i])]

\* the texts the range parsers are given beyond CodecTexts: corners of up to
\* MaxCornerLen characters with one ':' between them, "A1:C10", and texts
\* of two ':'
MaxCornerLen == 2
CornerChars == {65, 67, 49, 51}
CornerTexts == UNION {[1..k -> CornerChars] : k \in 0..MaxCornerLen}
A1toC10 == <<65, 49, 58, 67, 49, 48>>
RangeTexts ==
    {a \o <<COLON>> \o b : a \in CornerTexts, b \in CornerTexts}
        \cup {A1toC10}
        \cup {a \o <<COLON>> \o b \o <<COLON>> \o c :
                 a \in {<<>>, <<65, 49>>}, b \in {<<>>, <<67, 51>>},
                 c \in {<<>>, <<65, 49>>}}

CodecInit ==
    /\ ServerInit
    /\ codec \in [kind : {"number"}, n : 0..MaxColumn]
                 \cup [kind : {"text"}, text : CodecTexts]
                 \cup [kind : {"rangetext"}, text : RangeTexts]

\* numberToColumnLetter, and columnLetterToNumber on its result
ColumnRoundTrip ==
    /\ codec.kind = "number"
    /\ \E letters \in {numberToColumnLetter(codec.n)} :
           codec' = [kind |-> "letters", n |-> codec.n, letters |-> letters,
                     back |-> columnLetterToNumber(letters)]
    /\ UNCHANGED <<cache, heap, disk, resp, calls>>

\* cellRefToCoordinate, coordinateToCellRef on its result and
\* cellRefToCoordinate again; parseCellOrRange on the same text
ParseText ==
    /\ codec.kind = "text"
    /\ \E coord \in {cellRefToCoordinate(codec.text)} :
       \E formatted \in {IF coord.ok
                         THEN coordinateToCellRef(coord.row, coord.col)
                         ELSE <<>>} :
           codec' = [kind |-> "parsed", text |-> codec.text, coord |-> coord,
                     formatted |-> formatted,
                     again |-> cellRefToCoordinate(formatted),
                     upper |-> cellRefToCoordinate(UpperText(codec.text)),
                     range |-> parseCellOrRange(codec.text)]
    /\ UNCHANGED <<cache, heap, disk, resp, calls>>

\* columnLetterToNumber on a text and numberToColumnLetter on a number, each
\* on its own.  Neither function holds a throw statement, so a call returns
\* for every input: thrown is FALSE and value is what came back.
ColumnCodec ==
    /\ codec.kind \in {"number", "text"}
    /\ codec' = [kind |-> "column", input |-> codec, thrown |-> FALSE,
                 value |-> IF codec.kind = "text"
                           THEN <<columnLetterToNumber(codec.text)>>
                           ELSE numberToColumnLetter(codec.n)]
    /\ UNCHANGED <<cache, heap, disk, resp, calls>>

\* parseRange and parseCellOrRange on a text
ParseRangeText ==
    /\ codec.kind \in {"text", "rangetext"}
    /\ codec' = [kind |-> "ranged", text |-> codec.text,
                 range |-> parseRange(codec.text),
                 cellOrRange |-> parseCellOrRange(codec.text)]
    /\ UNCHANGED <<cache, heap, disk, resp, calls>>

CodecNext == ColumnRoundTrip \/ ParseText \/ ColumnCodec \/ ParseRangeText

SpecCodec == CodecInit /\ [][CodecNext]_vars

\* a valid address text: column letters followed by a row number from 1
ValidAddress(x) ==
    \E k \in 1..(Len(x) - 1) :
        /\ \A i \in 1..k : IsLetter(x[i])
        /\ \A i \in (k + 1)..Len(x) : IsDigit(x[i])
        /\ ParseInt(SubSeq(x, k + 1, Len(x))) >= 1

\* C10: the address codec round-trips.  Every column number n >= 1 comes
\* back from columnLetterToNumber(numberToColumnLetter(n)), with 1 -> A,
\* 26 -> Z, 27 -> AA, 52 -> AZ, 702 -> ZZ, 703 -> AAA; every valid address
\* text x parses, formats and parses again to the coordinates of x, and its
\* lower-case letters give the coordinates of the upper-case ones ("b12" is
\* row 12, column 2 and formats back as "B12").
C10_CodecRoundTrip ==
    /\ (codec.kind = "letters" /\ codec.n >= 1) =>
           /\ codec.back = codec.n
           /\ codec.n = 1 => codec.letters = <<65>>
           /\ codec.n = 26 => codec.letters = <<90>>
           /\ codec.n = 27 => codec.letters = <<65, 65>>
           /\ codec.n = 52 => codec.letters = <<65, 90>>
           /\ codec.n = 702 => codec.letters = <<90, 90>>
           /\ codec.n = 703 => codec.letters = <<65, 65, 65>>
    /\ (codec.kind = "parsed" /\ ValidAddress(codec.text)) =>
           /\ codec.coord.ok
           /\ codec.again = codec.coord
           /\ codec.upper = codec.coord
           /\ codec.text = <<98, 49, 50>> =>
                  /\ codec.coord = [ok |-> TRUE, row |-> 12, col |-> 2]
                  /\ codec.formatted = <<66, 49, 50>>

\* "b12" was parsed, formatted and parsed again
C10_Witness ==
    /\ codec.kind = "parsed"
    /\ codec.text = <<98, 49, 50>>
    /\ codec.formatted = <<66, 49, 50>>
    /\ codec.again = [ok |-> TRUE, row |-> 12, col |-> 2]

\* an address text as a whole: column letters followed by row digits
IsAddress(x) ==
    \E k \in 1..(Len(x) - 1) :
        /\ \A i \in 1..k : IsLetter(x[i])
        /\ \A i \in (k + 1)..Len(x) : IsDigit(x[i])

\* a text that is an address, or two addresses with ':' between them
IsAddressOrRange(x) ==
    \/ IsAddress(x)
    \/ \E c \in 1..Len(x) :
           /\ x[c] = COLON
           /\ IsAddress(SubSeq(x, 1, c - 1))
           /\ IsAddress(SubSeq(x, c + 1, Len(x)))

\* C9 as stated: validate_excel_range, given text that is no address and no
\* range (such as "A1-C3" without endCell), on a workbook and sheet that
\* exist, returns a text response that explains the failure.
C9_UnparsableExplained ==
    (/\ resp.tool = "validate_excel_range"
     /\ cache[LastPath] # NoHandle
     /\ ~IsAddressOrRange(validateRangeText(resp.args.startCell,
                                            resp.args.endCell))) =>
        /\ resp.status = "ok"
        /\ resp.text \in {"Invalid range format",
                          "Range is outside worksheet boundaries"}

-----------------------------------------------------------------------------
(* The data round trip: create_excel, then write_excel of an array of
   arrays, then read_excel *)

B1toB3 == <<66, 49, 58, 66, 51>>
A2toB3 == <<65, 50, 58, 66, 51>>

\* the values of the first row of a written table
HeaderCells == {Str(TextX), Str(TextY), Null}

\* the columns of a later row of m columns that hold a value: none, all,
\* the first only, the last only
RowPatterns(m) == {{}, 1..m, {1}, {m}}

\* a table of n rows and m columns: header values h in the first row, and in
\* the later rows a number of its own at each position of pop, null elsewhere
DataTable(n, m, h, pop) ==
    [isArray |-> TRUE,
     items |-> <<>> \o [i \in 1..n |->
                  ArrayItem(<<>> \o [j \in 1..m |->
                      IF i = 1 THEN h[j]
                      ELSE IF j \in pop[i] THEN Num(m * (i - 2) + j)
                      ELSE Null])]]

DataTablesOf(n, m) ==
    {DataTable(n, m, h, pop) : h \in [1..m -> HeaderCells],
                               pop \in [2..n -> RowPatterns(m)]}

DataTables ==
    UNION {DataTablesOf(n, m) : n \in 1..MaxRow, m \in 1..MaxCol}

DataCreateArgs == [filePath : ToolFilePaths, sheetName : {NoArg}]

DataWriteArgs ==
    [filePath : ToolFilePaths, sheetName : {NoArg}, data : DataTables,
     startCell : {A1, B2}, writeHeaders : {TRUE}]

\* the rectangle a write_excel call of an array of arrays covers
WrittenRange(args) ==
    LET start == parseCellOrRange(args.startCell)
    IN  formatRange([startRow |-> start.startRow,
                     startCol |-> start.startCol,
                     endRow |-> start.startRow + Len(args.data.items) - 1,
                     endCol |-> start.startCol
                                + Len(args.data.items[1].vals) - 1])

\* the read_excel calls that follow the write_excel call written
DataReadArgs(written) ==
    [filePath : ToolFilePaths, sheetName : {NoArg},
     range : {WrittenRange(written), B1toB3, A2toB3}, previewOnly : {FALSE}]
        \cup [filePath : ToolFilePaths, sheetName : {NoArg}, range : {<<>>},
              previewOnly : BOOLEAN]

DataCreate ==
    \E args \in DataCreateArgs, io \in WriteIO :
        /\ resp = NoResp
        /\ Serve("create_excel", args, io)

DataWrite ==
    \E args \in DataWriteArgs, io \in NoIO :
        /\ resp.tool = "create_excel"
        /\ resp.status = "ok"
        /\ Serve("write_excel", args, io)

DataRead ==
    /\ resp.tool = "write_excel"
    /\ \E args \in DataReadArgs(resp.args), io \in NoIO :
           Serve("read_excel", args, io)

DataNext == DataCreate \/ DataWrite \/ DataRead

SpecData == Init /\ [][DataNext]_vars

-----------------------------------------------------------------------------
(* Claims about the data round trip, checked under SpecData *)

\* the first row of a table holds distinct non-empty labels
DistinctLabels(items) ==
    LET labels == items[1].vals
    IN  /\ \A j \in 1..Len(labels) :
               labels[j].t = "string" /\ labels[j].s # <<>>
        /\ \A j, k \in 1..Len(labels) : labels[j] = labels[k] => j = k

\* every later row of a table holds at least one non-null value
EveryRowValued(items) ==
    \A i \in 2..Len(items) :
        \E j \in 1..Len(items[i].vals) : items[i].vals[j] # Null

\* the columns of a table a mapping of row i has a key for
AllColumns(items, i) == 1..Len(items[1].vals)
ValuedColumns(items, i) ==
    {j \in 1..Len(items[1].vals) : items[i].vals[j] # Null}

\* one mapping per later row, from the label of each column of cols(i) to
\* the row's value in that column
MappingOf(items, i, cols) ==
    [k \in {items[1].vals[j].s : j \in cols} |->
        items[i].vals[CHOOSE j \in cols : items[1].vals[j].s = k]]

RowsByLabel(items) ==
    <<>> \o [i \in 1..(Len(items) - 1) |->
                MappingOf(items, i + 1, AllColumns(items, i + 1))]

RowsByValuedLabel(items) ==
    <<>> \o [i \in 1..(Len(items) - 1) |->
                MappingOf(items, i + 1, ValuedColumns(items, i + 1))]

\* a step from a successful write_excel of a table of the claimed shape to
\* the read_excel over exactly the written rectangle
RoundTripStep ==
    /\ resp.tool = "write_excel"
    /\ resp.status = "ok"
    /\ DistinctLabels(resp.args.data.items)
    /\ EveryRowValued(resp.args.data.items)
    /\ resp'.tool = "read_excel"
    /\ resp'.args.range = WrittenRange(resp.args)

\* C4 as stated: after create_excel on a new path, write_excel of an array
\* of arrays with distinct non-empty labels in its first row and a non-null
\* value in every later row, then read_excel over the written rectangle,
\* returns one mapping per later row from each first-row label to the row's
\* value in that column.
C4_EveryLabelMapped ==
    [][RoundTripStep =>
          /\ resp'.status = "ok"
          /\ resp'.data = RowsByLabel(resp.args.data.items)]_vars

\* C4, amended: the read returns one mapping per later row, in row order,
\* from each first-row label whose cell in that row is non-null to the
\* row's value in that column; labels of null cells are absent.
C4_ValuedLabelsMapped ==
    [][RoundTripStep =>
          /\ resp'.status = "ok"
          /\ resp'.data = RowsByValuedLabel(resp.args.data.items)]_vars

\* the read over A1:B3 after [["x","y"],[1,null],[3,4]] was written at A1
C4_Witness ==
    /\ resp.tool = "read_excel"
    /\ resp.status = "ok"
    /\ resp.args.range = <<65, 49, 58, 66, 51>>
    /\ resp.data = <<(TextX :> Num(1)),
                     (TextX :> Num(3)) @@ (TextY :> Num(4))>>

\* the worksheet the calls of the round trip work on
DataSheet == heap[cache[getExcelPath(RelativeArg)]].sheets[1]

\* the later rows of range r of worksheet ws that hold a non-null cell
RowsWithData(ws, r) ==
    {row \in (r.startRow + 1)..r.endRow :
        \E col \in r.startCol..r.endCol : CellValue(ws, row, col) # Null}

\* the columns of range r where row holds a non-null cell
ColumnsWithData(ws, r, row) ==
    {col \in r.startCol..r.endCol : CellValue(ws, row, col) # Null}

\* the key of a column: the text of its header cell, Column<N> with N the
\* position inside the range where the header cell is empty
KeyOfColumn(ws, r, col) ==
    IF CellValue(ws, r.startRow, col) = Null
    THEN ColumnLabel(col - r.startCol + 1)
    ELSE CellValue(ws, r.startRow, col).s

\* mapping m is the one of row: a key for every column with a non-null cell
\* and no other key, and the cell's value at the key of a column that
\* shares its key with no other column of the row
MappingOfRow(ws, r, row, m) ==
    /\ DOMAIN m = {KeyOfColumn(ws, r, col) :
                      col \in ColumnsWithData(ws, r, row)}
    /\ \A col \in ColumnsWithData(ws, r, row) :
           (\A other \in ColumnsWithData(ws, r, row) :
                KeyOfColumn(ws, r, other) = KeyOfColumn(ws, r, col)
                    => other = col)
               => m[KeyOfColumn(ws, r, col)] = CellValue(ws, row, col)

\* data holds, top to bottom, one mapping for each row of range r of ws
\* that has a non-null cell below the first row, and nothing else
HeaderAndRows(ws, r, data) ==
    /\ Len(data) = Cardinality(RowsWithData(ws, r))
    /\ \A row \in RowsWithData(ws, r) :
           MappingOfRow(ws, r, row,
               data[Cardinality({q \in RowsWithData(ws, r) : q <= row})])

\* C5: a successful read_excel takes the first row of the resolved range as
\* the header row and returns, in row order, exactly one mapping for each
\* later row with a non-null cell; all-null rows are omitted, and a column
\* with an empty header cell is keyed Column<N>, N its position in the range.
C5_HeaderAndRows ==
    [][(resp'.tool = "read_excel" /\ resp'.status = "ok") =>
          HeaderAndRows(DataSheet,
                        readRange(DataSheet, resp'.args.range,
                                  resp'.args.previewOnly),
                        resp'.data)]_vars

\* the read over B1:B3 of a sheet whose column B has an empty header, no
\* value in row 2 and a value in row 3: one mapping, keyed Column1
C5_Witness ==
    /\ resp.tool = "read_excel"
    /\ resp.status = "ok"
    /\ resp.args.range = B1toB3
    /\ CellValue(DataSheet, 1, 2) = Null
    /\ CellValue(DataSheet, 2, 2) = Null
    /\ CellValue(DataSheet, 3, 2) # Null
    /\ Len(resp.data) = 1
    /\ DOMAIN resp.data[1] = {ColumnLabel(1)}

-----------------------------------------------------------------------------
(* Tool calls in flight together.  The request handler is async and is     *)
(* started for a request without waiting for the calls before it, so a     *)
(* write_excel call suspended at "await workbook.xlsx.readFile" or at      *)
(* "await workbook.xlsx.writeFile" leaves the other calls to run.  An      *)
(* entry of calls is one suspended call: its arguments, the await it is    *)
(* at (pc), the workbook it holds (h), and at the write the file content   *)
(* as of the writeFile call.                                               *)

MaxCalls == 2          \* tool calls in flight at a time

\* write_excel of the single value n at cell
CellWrite(cell, n) ==
    [filePath |-> RelativeArg, sheetName |-> NoArg,
     data |-> [isArray |-> TRUE, items |-> <<ArrayItem(<<Num(n)>>)>>],
     startCell |-> cell, writeHeaders |-> TRUE]

ConcWriteArgs == {CellWrite(A1, 1), CellWrite(B1, 2)}

Suspended(args, pc, h, file) ==
    [args |-> args, pc |-> pc, h |-> h, file |-> file]

WithoutCall(i) == SubSeq(calls, 1, i - 1) \o SubSeq(calls, i + 1, Len(calls))

\* a call leaves with a response: c, hp and d are what it leaves behind
ConcRespond(i, out) ==
    /\ cache' = out.cache
    /\ calls' = WithoutCall(i)
    /\ heap' = Collect(out.heap, out.cache, WithoutCall(i))
    /\ disk' = out.disk
    /\ resp' = out.resp
    /\ UNCHANGED codec

\* a call goes on to "await workbook.xlsx.writeFile", w being what
\* writeCells gave on the workbook at handle h
ConcToWrite(cl, args, c, h, w) ==
    /\ cache' = c
    /\ calls' = cl
    /\ heap' = Collect(w.heap, c, cl)
    /\ UNCHANGED <<disk, resp, codec>>

\* write_excel from the request to its first await that suspends it: with
\* the workbook cached the cells are written and the call waits for
\* writeFile; otherwise it waits for readFile on a new Workbook, or throws
\* where the file does not exist
ConcBegin ==
    \E args \in ConcWriteArgs :
        /\ Len(calls) < MaxCalls
        /\ LET fullPath == getExcelPath(args.filePath)
               h == cache[fullPath]
               w == writeCells(args, heap, h)
           IN  IF h # NoHandle
               THEN IF w.ok
                    THEN ConcToWrite(
                             Append(calls,
                                    Suspended(args, "write", h,
                                              WorkbookToFile(w.heap[h]))),
                             args, cache, h, w)
                    ELSE /\ resp' = Thrown("write_excel", args, "InvalidParams",
                                           cache, heap, disk).resp
                         /\ UNCHANGED <<cache, heap, disk, calls, codec>>
               ELSE IF ~existsSync(fullPath)
               THEN /\ resp' = Thrown("write_excel", args, "InvalidParams",
                                      cache, heap, disk).resp
                    /\ UNCHANGED <<cache, heap, disk, calls, codec>>
               ELSE /\ heap' = [heap EXCEPT ![NewHandle] = NewWorkbook]
                    /\ calls' = Append(calls, Suspended(args, "read",
                                                        NewHandle, NoFile))
                    /\ UNCHANGED <<cache, disk, resp, codec>>

\* readFile of call i settles: the workbook is filled from the file and put
\* in the cache under the path, whatever the cache holds there by now, and
\* the call runs on to writeFile
ConcReadDone ==
    \E i \in DOMAIN calls, readOk \in BOOLEAN :
        /\ calls[i].pc = "read"
        /\ LET args == calls[i].args
               fullPath == getExcelPath(args.filePath)
               h == calls[i].h
               loaded == [heap EXCEPT ![h] =
                             FileToWorkbook(disk[FileOf(fullPath)])]
               c == [cache EXCEPT ![fullPath] = h]
               w == writeCells(args, loaded, h)
           IN  IF ~readOk \/ ~existsSync(fullPath)
               THEN ConcRespond(i, Thrown("write_excel", args, "InternalError",
                                          cache, heap, disk))
               ELSE IF ~w.ok
               THEN ConcRespond(i, Thrown("write_excel", args, "InvalidParams",
                                          c, loaded, disk))
               ELSE ConcToWrite(
                        [calls EXCEPT ![i] =
                            Suspended(args, "write", h,
                                      WorkbookToFile(w.heap[h]))],
                        args, c, h, w)

\* writeFile of call i settles.  The file holds the workbook as it was when
\* writeFile was called or as it is now: the serialisation runs between the
\* two.
ConcWriteDone ==
    \E i \in DOMAIN calls, writeOk \in BOOLEAN :
        /\ calls[i].pc = "write"
        /\ LET args == calls[i].args
               fullPath == getExcelPath(args.filePath)
           IN  IF ~writeOk
               THEN ConcRespond(i, Thrown("write_excel", args, "InternalError",
                                          cache, heap, disk))
               ELSE \E content \in {calls[i].file,
                                    WorkbookToFile(heap[calls[i].h])} :
                        ConcRespond(i,
                            Returned("write_excel", args, "saved", <<>>,
                                     cache, heap,
                                     [disk EXCEPT ![FileOf(fullPath)] = content]))

\* a workbook file put in place from outside the server
ConcExternalWrite ==
    \E f \in Files :
        /\ ~disk[f].exists
        /\ External("(overwrite)", f, ExternalFile)

ConcNext ==
    \/ ConcBegin
    \/ ConcReadDone
    \/ ConcWriteDone
    \/ ConcExternalWrite

SpecConc == Init /\ [][ConcNext]_vars

\* the cell a write_excel call of ConcWriteArgs wrote holds the call's value
\* in workbook wb
HoldsWriteOf(wb, args) ==
    /\ Len(wb.sheets) > 0
    /\ CellValue(wb.sheets[1],
                 parseCellOrRange(args.startCell).startRow,
                 parseCellOrRange(args.startCell).startCol)
           = args.data.items[1].vals[1]

\* C2 as stated: however two tool calls on one path interleave at their
\* awaited file reads and writes, both resolve to the same cached workbook
\* handle: a call that has mutated its workbook and waits for its write has
\* mutated the workbook the cache holds for the path, which shows the
\* call's mutation.
C2_SameCachedHandle ==
    \A i \in DOMAIN calls :
        calls[i].pc = "write" =>
            /\ cache[getExcelPath(calls[i].args.filePath)] = calls[i].h
            /\ HoldsWriteOf(heap[cache[getExcelPath(calls[i].args.filePath)]],
                            calls[i].args)

-----------------------------------------------------------------------------
(* Claims about the failures of the codec (SpecCodec) *)

\* C11 as stated: cellRefToCoordinate returns a coordinate only for text
\* made of leading column letters followed by trailing digits that denote a
\* positive integer and fails for every other text; every coordinate it
\* returns has row >= 1 and column >= 1.
C11_OnlyValidAddresses ==
    codec.kind = "parsed" =>
        /\ codec.coord.ok <=> ValidAddress(codec.text)
        /\ codec.coord.ok => (codec.coord.row >= 1 /\ codec.coord.col >= 1)

\* C12 as stated: columnLetterToNumber fails when a character of its input
\* is outside A-Z after case folding, and numberToColumnLetter fails when
\* n < 1; neither returns a value for such input.
C12_DomainRejected ==
    codec.kind = "column" =>
        /\ (/\ codec.input.kind = "text"
            /\ \E i \in 1..Len(codec.input.text) :
                   ~IsLetter(codec.input.text[i])) => codec.thrown
        /\ (codec.input.kind = "number" /\ codec.input.n < 1) => codec.thrown

\* the positions of ':' in a text
Colons(x) == {i \in 1..Len(x) : x[i] = COLON}

\* the range whose corners are the coordinates parsed from texts a and b, as
\* written: a's are the start and b's are the end
CornersAsWritten(a, b) ==
    IF cellRefToCoordinate(a).ok /\ cellRefToCoordinate(b).ok
    THEN [ok |-> TRUE,
          startRow |-> cellRefToCoordinate(a).row,
          startCol |-> cellRefToCoordinate(a).col,
          endRow |-> cellRefToCoordinate(b).row,
          endCol |-> cellRefToCoordinate(b).col]
    ELSE InvalidRange

\* what the claim gives for parseRange on text x
RangeAsWritten(x) ==
    IF Cardinality(Colons(x)) # 1 THEN InvalidRange
    ELSE CornersAsWritten(SubSeq(x, 1, Least(Colons(x)) - 1),
                          SubSeq(x, Least(Colons(x)) + 1, Len(x)))

\* C13: parseRange fails when the text holds zero or more than one ':' and
\* otherwise returns the two parsed corners as written, without swapping
\* them ("A1:C10" gives startRow 1, startCol 1, endRow 10, endCol 3);
\* parseCellOrRange gives what parseRange gives when the text contains ':'
\* and otherwise the range with start = end ("B2" gives 2, 2, 2, 2).
C13_RangeParsing ==
    codec.kind = "ranged" =>
        /\ codec.range = RangeAsWritten(codec.text)
        /\ Colons(codec.text) # {} => codec.cellOrRange = codec.range
        /\ Colons(codec.text) = {} =>
               codec.cellOrRange = CornersAsWritten(codec.text, codec.text)
        /\ codec.text = A1toC10 =>
               codec.range = [ok |-> TRUE, startRow |-> 1, startCol |-> 1,
                              endRow |-> 10, endCol |-> 3]
        /\ codec.text = B2 =>
               codec.cellOrRange = [ok |-> TRUE, startRow |-> 2, startCol |-> 2,
                                    endRow |-> 2, endCol |-> 2]

\* "C3:A1" was parsed: the corners come back as written, the end before the
\* start
C13_Witness ==
    /\ codec.kind = "ranged"
    /\ codec.text = <<67, 51, 58, 65, 49>>
    /\ codec.range = [ok |-> TRUE, startRow |-> 3, startCol |-> 3,
                      endRow |-> 1, endCol |-> 1]
    /\ codec.cellOrRange = codec.range

-----------------------------------------------------------------------------
(* handlers/rangeHandlers: delete_range, run one loop iteration at a time.  *)
(* The handler has no await inside its loops, so no other call runs while   *)
(* it is in them: the entry of calls is the one call inside the handler,    *)
(* with the loop it is at (pc), its workbook and sheet, the parsed range    *)
(* and the loop variables row and col.                                      *)

MaxShiftRow == 6       \* worksheet rows the shift loop is followed over

A3 == <<65, 51>>
C3 == <<67, 51>>
TextUp == <<117, 112>>
TextLeft == <<108, 101, 102, 116>>

DeleteRangeArgs ==
    [filePath : ToolFilePaths, sheetName : {NoArg},
     startCell : {A1, A2, B2, A3, C3}, endCell : {A1, B1, B2},
     shiftDirection : {TextUp, TextLeft}]

\* [[1, 2, 3], [4, 5, 6], [7, 8, 9]]
Table3x3 ==
    [isArray |-> TRUE,
     items |-> <<ArrayItem(<<Num(1), Num(2), Num(3)>>),
                 ArrayItem(<<Num(4), Num(5), Num(6)>>),
                 ArrayItem(<<Num(7), Num(8), Num(9)>>)>>]

\* [[1, null, 3], [null, null, null], [7, 8, null]]
TableSparse ==
    [isArray |-> TRUE,
     items |-> <<ArrayItem(<<Num(1), Null, Num(3)>>),
                 ArrayItem(<<Null, Null, Null>>),
                 ArrayItem(<<Num(7), Num(8), Null>>)>>]

RangeWriteArgs ==
    [filePath : ToolFilePaths, sheetName : {NoArg},
     data : {TableXY, Table3x3, TableSparse},
     startCell : {A1}, writeHeaders : {FALSE}]

\* `${startCell}:${endCell}`
deleteRangeText(args) == args.startCell \o <<COLON>> \o args.endCell

\* the two loops that clear the cells of the range: every cell is made by
\* getCell and its value set to null
clearRange(ws, range) ==
    LET touched == getCells(ws, range.startRow, range.endRow,
                            range.startCol, range.endCol)
    IN  [touched EXCEPT !.values =
            [p \in {q \in DOMAIN touched.values :
                       ~(/\ q[1] >= range.startRow /\ q[1] <= range.endRow
                         /\ q[2] >= range.startCol /\ q[2] <= range.endCol)}
                |-> touched.values[p]]]

\* moveCell leaving the source cell as it is
moveCellKeepSource(ws, row, col, toRow, toCol) ==
    SetCellValue(getCell(ws, row, col), toRow, toCol, CellValue(ws, row, col))

\* the body of both shift loops: the value of the source cell goes to the
\* target cell and the source cell is cleared
moveCell(ws, row, col, toRow, toCol) ==
    SetCellValue(SetCellValue(getCell(ws, row, col), toRow, toCol,
                              CellValue(ws, row, col)),
                 row, col, Null)

\* the call inside delete_range at the start of its shift loops; before is
\* the worksheet as the call found it
Shifting(args, h, si, range, before) ==
    [args |-> args, h |-> h, si |-> si, range |-> range, before |-> before,
     pc |-> IF args.shiftDirection = TextUp THEN "up"
            ELSE IF args.shiftDirection = TextLeft THEN "left" ELSE "write",
     row |-> IF args.shiftDirection = TextUp THEN range.endRow + 1
             ELSE range.startRow,
     col |-> IF args.shiftDirection = TextUp THEN range.startCol
             ELSE range.endCol + 1]

\* delete_range after the range was parsed: the cells are cleared and the
\* call goes into its shift loops
deleteRangeParsed(args, ld, si, range) ==
    IF ~range.ok
    THEN ConcRespond(1, Thrown("delete_range", args, "InvalidParams",
                               ld.cache, ld.heap, disk))
    ELSE /\ cache' = ld.cache
         /\ heap' = WithSheet(ld.heap, ld.h, si,
                              clearRange(ld.heap[ld.h].sheets[si], range))
         /\ calls' = <<Shifting(args, ld.h, si, range,
                                ld.heap[ld.h].sheets[si])>>
         /\ UNCHANGED <<disk, resp, codec>>

\* delete_range after "await loadWorkbook"
deleteRangeLoaded(args, ld) ==
    IF ld.code # ""
    THEN ConcRespond(1, Thrown("delete_range", args, ld.code, ld.cache,
                               ld.heap, disk))
    ELSE IF getWorksheet(ld.heap[ld.h], args.sheetName) = 0
    THEN ConcRespond(1, Thrown("delete_range", args, "InvalidParams",
                               ld.cache, ld.heap, disk))
    ELSE deleteRangeParsed(args, ld,
                           getWorksheet(ld.heap[ld.h], args.sheetName),
                           parseCellOrRange(deleteRangeText(args)))

\* delete_range from the request to the start of the shift loops, on the
\* workbook as create_excel and write_excel left it
DeleteRangeBegin ==
    \E args \in DeleteRangeArgs, io \in ReadIO :
        /\ calls = <<>>
        /\ resp.tool # "delete_range"
        /\ deleteRangeLoaded(args,
               loadWorkbook(getExcelPath(args.filePath), io.read))

\* the sheet the call inside delete_range works on
ShiftSheet == heap[calls[1].h].sheets[calls[1].si]

\* one test of the loop conditions of "shift up", and one run of the body
\* where they hold: for (col ...) for (row = endRow + 1;
\* row <= worksheet.rowCount; row++), rowCount being read again at every
\* test.  The body is followed while its target row is within MaxShiftRow.
ShiftUpStep ==
    /\ calls # <<>>
    /\ calls[1].pc = "up"
    /\ LET c == calls[1]
           height == c.range.endRow - c.range.startRow + 1
       IN  IF c.col > c.range.endCol
           THEN /\ calls' = <<[c EXCEPT !.pc = "write"]>>
                /\ UNCHANGED <<cache, heap, disk, resp, codec>>
           ELSE IF c.row > rowCount(ShiftSheet)
           THEN /\ calls' = <<[c EXCEPT !.col = @ + 1,
                                        !.row = c.range.endRow + 1]>>
                /\ UNCHANGED <<cache, heap, disk, resp, codec>>
           ELSE /\ c.row - height <= MaxShiftRow
                /\ heap' = WithSheet(heap, c.h, c.si,
                               moveCell(ShiftSheet, c.row, c.col,
                                        c.row - height, c.col))
                /\ calls' = <<[c EXCEPT !.row = @ + 1]>>
                /\ UNCHANGED <<cache, disk, resp, codec>>

\* the same for "shift left": for (row ...) for (col = endCol + 1;
\* col <= worksheet.columnCount; col++)
ShiftLeftStep ==
    /\ calls # <<>>
    /\ calls[1].pc = "left"
    /\ LET c == calls[1]
           width == c.range.endCol - c.range.startCol + 1
       IN  IF c.row > c.range.endRow
           THEN /\ calls' = <<[c EXCEPT !.pc = "write"]>>
                /\ UNCHANGED <<cache, heap, disk, resp, codec>>
           ELSE IF c.col > columnCount(ShiftSheet)
           THEN /\ calls' = <<[c EXCEPT !.row = @ + 1,
                                        !.col = c.range.endCol + 1]>>
                /\ UNCHANGED <<cache, heap, disk, resp, codec>>
           ELSE /\ heap' = WithSheet(heap, c.h, c.si,
                               moveCell(ShiftSheet, c.row, c.col,
                                        c.row, c.col - width))
                /\ calls' = <<[c EXCEPT !.col = @ + 1]>>
                /\ UNCHANGED <<cache, disk, resp, codec>>

\* delete_range from "await workbook.xlsx.writeFile" to its response
DeleteRangeEnd ==
    \E io \in WriteIO :
        /\ calls # <<>>
        /\ calls[1].pc = "write"
        /\ ConcRespond(1,
               IF io.write
               THEN Returned("delete_range", calls[1].args, "deleted", <<>>,
                             cache, heap,
                             writeFile(disk,
                                       getExcelPath(calls[1].args.filePath),
                                       heap[calls[1].h]))
               ELSE Thrown("delete_range", calls[1].args, "InternalError",
                           cache, heap, disk))

\* the calls that give delete_range a workbook to work on
RangeCreate ==
    \E args \in DataCreateArgs, io \in NoIO :
        /\ resp = NoResp
        /\ Serve("create_excel", args, io)

RangeWrite ==
    \E args \in RangeWriteArgs, io \in NoIO :
        /\ calls = <<>>
        /\ resp.tool = "create_excel"
        /\ Serve("write_excel", args, io)

RangeNext ==
    \/ RangeCreate
    \/ RangeWrite
    \/ DeleteRangeBegin
    \/ ShiftUpStep
    \/ ShiftLeftStep
    \/ DeleteRangeEnd

SpecRange == Init /\ [][RangeNext]_vars

\* C14 as stated: a tool call whose range text has its end before its start
\* (such as "C3:A1") is rejected with an error and is not executed, so that
\* every range a handler works on satisfies isValidRange.
C14_ReversedRejected ==
    (/\ resp.tool = "delete_range"
     /\ parseCellOrRange(deleteRangeText(resp.args)).ok
     /\ ~isValidRange(parseCellOrRange(deleteRangeText(resp.args)))) =>
        resp.status = "error"

\* one run of the body of the inner loop of "shift up"
ShiftUpIteration ==
    /\ calls # <<>> /\ calls' # <<>>
    /\ calls[1].pc = "up" /\ calls'[1].pc = "up"
    /\ calls'[1].col = calls[1].col
    /\ calls'[1].row = calls[1].row + 1

\* C17 as stated: every tool call terminates after finitely many steps, for
\* every argument value, including a range whose end precedes its start.
\* For the shift loop of delete_range, which runs while
\* row <= worksheet.rowCount, that is: every run of its body leaves fewer
\* rows between row and worksheet.rowCount than there were.
C17_ShiftLoopEnds ==
    [][ShiftUpIteration =>
          rowCount(ShiftSheet)' - calls'[1].row
              < rowCount(ShiftSheet) - calls[1].row]_vars

\* C22 as stated: when the range parses with endRow < startRow, every loop
\* of the handler that the range drives runs zero times, so that the call
\* modifies no cell; here for delete_range and its shift loops.
C22_ReversedDoesNothing ==
    [][(/\ calls # <<>>
        /\ calls' # <<>>
        /\ calls[1].range.endRow < calls[1].range.startRow) =>
           heap'[calls[1].h].sheets[calls[1].si].values = ShiftSheet.values]_vars

\* the worksheet a delete_range with "up" on a normalized range is to leave:
\* in the columns of the range, from its first row on, every cell holds
\* what the cell as many rows below as the range is high held before
ShiftedUp(before, after, range) ==
    LET height == range.endRow - range.startRow + 1
        cells == DOMAIN before.values \cup DOMAIN after.values
                     \cup {<<p[1] - height, p[2]>> : p \in DOMAIN before.values}
    IN  \A p \in {q \in cells : q[1] >= 1} :
            CellValue(after, p[1], p[2]) =
                IF /\ p[2] >= range.startCol /\ p[2] <= range.endCol
                   /\ p[1] >= range.startRow
                THEN CellValue(before, p[1] + height, p[2])
                ELSE CellValue(before, p[1], p[2])

\* the same for "left", rows and columns exchanged
ShiftedLeft(before, after, range) ==
    LET width == range.endCol - range.startCol + 1
        cells == DOMAIN before.values \cup DOMAIN after.values
                     \cup {<<p[1], p[2] - width>> : p \in DOMAIN before.values}
    IN  \A p \in {q \in cells : q[2] >= 1} :
            CellValue(after, p[1], p[2]) =
                IF /\ p[1] >= range.startRow /\ p[1] <= range.endRow
                   /\ p[2] >= range.startCol
                THEN CellValue(before, p[1], p[2] + width)
                ELSE CellValue(before, p[1], p[2])

\* C23: delete_range on a normalized rectangle with shift "up" ends with, in
\* every column of the rectangle and every row from its first row on, the
\* value the cell as many rows below as the rectangle is high held before
\* the call (empty beyond the sheet), every other cell unchanged; with shift
\* "left" the same with rows and columns exchanged.
C23_DeleteRangeShifts ==
    (/\ calls # <<>>
     /\ calls[1].pc = "write"
     /\ isValidRange(calls[1].range)) =>
        IF calls[1].args.shiftDirection = TextUp
        THEN ShiftedUp(calls[1].before, ShiftSheet, calls[1].range)
        ELSE ShiftedLeft(calls[1].before, ShiftSheet, calls[1].range)

\* the 5 in the middle of the table of 1..9 was deleted with shift "up": the
\* 8 is in its place and the other columns are as they were
C23_Witness ==
    /\ calls # <<>>
    /\ calls[1].pc = "write"
    /\ calls[1].args.startCell = B2
    /\ calls[1].args.endCell = B2
    /\ calls[1].args.shiftDirection = TextUp
    /\ CellValue(calls[1].before, 2, 2) = Num(5)
    /\ CellValue(ShiftSheet, 2, 2) = Num(8)
    /\ CellValue(ShiftSheet, 3, 2) = Null
    /\ CellValue(ShiftSheet, 3, 3) = Num(9)

-----------------------------------------------------------------------------
(* Claims about the errors of the tool calls (Spec) *)

\* the tools whose handler opens the workbook with loadWorkbook
LoadingTools ==
    {"read_excel", "write_excel", "create_sheet", "rename_worksheet",
     "delete_worksheet", "copy_worksheet", "validate_excel_range",
     "create_chart"}

\* C15 as stated: a tool call that names a file which does not exist and is
\* not cached fails with an error of kind NotFound.
C15_MissingIsNotFound ==
    (/\ resp.tool \in LoadingTools
     /\ cache[LastPath] = NoHandle
     /\ ~existsSync(LastPath)) =>
        /\ resp.status = "error"
        /\ resp.code = "NotFound"

-----------------------------------------------------------------------------
(* The catch blocks of the handlers and of the request handler.  What is   *)
(* thrown is a value: an McpError (typed, with its code and message), an   *)
(* Error of another class, or something that is no Error at all.  A        *)
(* message is the sequence of its parts.                                   *)

ErrorCodes == {"InvalidParams", "InternalError", "MethodNotFound"}
ErrorTexts == {"not found", "EACCES", "boom"}

McpErrorOf(code, message) ==
    [typed |-> TRUE, isError |-> TRUE, code |-> code, message |-> message]

\* what the body of a handler can throw
Throwables ==
    {McpErrorOf(code, <<text>>) : code \in ErrorCodes, text \in ErrorTexts}
        \cup [typed : {FALSE}, isError : {TRUE}, code : {""},
              message : {<<text>> : text \in ErrorTexts}]
        \cup [typed : {FALSE}, isError : {FALSE}, code : {""},
              message : {<<>>}]

\* the two texts of the catch block of each handler
CatchTexts ==
    [read_excel |->
        <<"Data reading error", "Unknown error occurred while reading data">>,
     write_excel |->
        <<"Data writing error", "Unknown error occurred while writing data">>,
     create_excel |->
        <<"Excel file creation error",
          "Unknown error occurred while creating Excel file">>,
     create_sheet |->
        <<"Sheet creation error", "Unknown error occurred while creating sheet">>,
     rename_worksheet |->
        <<"Sheet rename error", "Unknown error occurred while renaming sheet">>,
     delete_worksheet |->
        <<"Sheet deletion error", "Unknown error occurred while deleting sheet">>,
     copy_worksheet |->
        <<"Sheet copy error", "Unknown error occurred while copying sheet">>,
     delete_range |->
        <<"Range deletion error", "Unknown error occurred while deleting range">>,
     validate_excel_range |->
        <<"Range validation error",
          "Unknown error occurred during range validation">>,
     create_chart |->
        <<"Chart creation error", "Unknown error occurred while creating chart">>,
     create_pivot_table |->
        <<"Pivot table creation error",
          "Unknown error occurred while creating pivot table">>]

\* a catch block that wraps whatever it caught
handlerCatchWrapAll(tool, error) ==
    McpErrorOf("InternalError",
               IF error.isError THEN <<CatchTexts[tool][1]>> \o error.message
               ELSE <<CatchTexts[tool][2]>>)

\* the catch block of the handler of tool: what it throws for what it caught
handlerCatch(tool, error) ==
    IF error.typed THEN error
    ELSE McpErrorOf("InternalError",
                    IF error.isError
                    THEN <<CatchTexts[tool][1]>> \o error.message
                    ELSE <<CatchTexts[tool][2]>>)

\* the catch block of the request handler
dispatcherCatch(error) ==
    IF error.typed THEN error
    ELSE McpErrorOf("InternalError",
                    IF error.isError THEN error.message
                    ELSE <<"Unknown error">>)

ErrorInit ==
    /\ ServerInit
    /\ codec \in [kind : {"thrown"}, tool : DOMAIN CatchTexts,
                  error : Throwables]

\* an error thrown in the body of a handler goes through the catch block of
\* the handler and then through the one of the request handler
CatchInHandler ==
    /\ codec.kind = "thrown"
    /\ \E handled \in {handlerCatch(codec.tool, codec.error)} :
           codec' = [kind |-> "caught", tool |-> codec.tool,
                     error |-> codec.error, handled |-> handled,
                     reached |-> dispatcherCatch(handled)]
    /\ UNCHANGED <<cache, heap, disk, resp, calls>>

\* an error thrown outside the handlers goes through the catch block of the
\* request handler alone
CatchInDispatcher ==
    /\ codec.kind = "thrown"
    /\ codec' = [kind |-> "escaped", tool |-> codec.tool,
                 error |-> codec.error, handled |-> codec.error,
                 reached |-> dispatcherCatch(codec.error)]
    /\ UNCHANGED <<cache, heap, disk, resp, calls>>

ErrorNext ==
    \/ CatchInHandler
    \/ CatchInDispatcher
    \/ CreateExcel
    \/ ReadExcel
    \/ UnknownTool

SpecErrors == ErrorInit /\ [][ErrorNext]_vars

\* what reaches the caller is typed, is what was thrown where that was typed
\* already, and is an InternalError otherwise
TypedToCaller ==
    codec.kind \in {"caught", "escaped"} =>
        /\ codec.reached.typed
        /\ codec.reached.code \in ErrorCodes
        /\ codec.reached.message # <<>>
        /\ codec.error.typed =>
               (codec.handled = codec.error /\ codec.reached = codec.error)
        /\ ~codec.error.typed => codec.reached.code = "InternalError"
        /\ codec.kind = "caught" => codec.reached = codec.handled

\* the failed tool calls carry one of the kinds
FailuresTyped == resp.status = "error" => resp.code \in ErrorCodes

\* C16: every failure of a tool call reaches the caller as a typed error; a
\* handler rethrows a typed error unchanged and wraps any other exception as
\* InternalError, the request handler does the same for what escapes a
\* handler, and an unknown tool name raises a typed error without touching
\* the cache, the workbooks or the files.
C16_TypedErrors ==
    /\ [](TypedToCaller /\ FailuresTyped)
    /\ [][resp'.tool = "no_such_tool" =>
             /\ resp'.status = "error"
             /\ resp'.code = "MethodNotFound"
             /\ cache' = cache /\ heap' = heap /\ disk' = disk]_vars

\* an Error that is no McpError was thrown in write_excel, came out of the
\* handler wrapped, and an unknown tool was called with a workbook cached
C16_Witness ==
    /\ codec.kind = "caught"
    /\ codec.tool = "write_excel"
    /\ ~codec.error.typed
    /\ codec.reached =
           McpErrorOf("InternalError", <<"Data writing error", "EACCES">>)
    /\ resp.tool = "no_such_tool"
    /\ cache[getExcelPath(RelativeArg)] # NoHandle

-----------------------------------------------------------------------------
(* create_pivot_table among the calls that make and fill a workbook        *)
(* (SpecPivot)                                                             *)

AggSUM == <<83, 85, 77>>
AggSummary == <<115, 117, 109, 109, 97, 114, 121>>
AggAvg == <<97, 118, 103>>
AggMedian == <<109, 101, 100, 105, 97, 110>>
AggStdDev == <<115, 116, 100, 68, 101, 118>>

CreatePivotTableArgs ==
    [filePath : ToolFilePaths, sheetName : {NoArg, "Data"},
     dataRange : {A1toB2, OnlyDigits},
     rows : {<<TextX, TextY>>},
     columns : {NoText, <<>>, <<TextY, TextX>>},
     values : {<<TextY>>},
     aggFunc : {NoText, AggSUM, AggSummary, AggAvg, AggMedian, AggStdDev}]

CreatePivotTable ==
    \E args \in CreatePivotTableArgs, io \in WriteIO :
        Serve("create_pivot_table", args, io)

PivotNext ==
    \/ CreateExcel
    \/ CreateSheet
    \/ WriteExcel
    \/ ExternalWrite
    \/ CreatePivotTable

SpecPivot == Init /\ [][PivotNext]_vars

\* String.prototype.endsWith
EndsWith(s, tail) ==
    /\ Len(tail) <= Len(s)
    /\ SubSeq(s, Len(s) - Len(tail) + 1, Len(s)) = tail

\* the aggregation functions the arguments of the model resolve to:
\* 'sum' for none, 'SUM' and 'summary', 'average' for 'avg'
ResolvedAggFunc(aggFunc) ==
    IF aggFunc = AggAvg THEN <<97, 118, 101, 114, 97, 103, 101>>
    ELSE <<115, 117, 109>>

\* the texts of a list separated by ', '
CommaSeparated(items, text) ==
    \/ Len(items) = 1 /\ text = items[1]
    \/ Len(items) = 2 /\ text = items[1] \o <<44, 32>> \o items[2]

\* the lines of the response name the arguments of the call
EchoesArguments(lines, args) ==
    /\ Len(lines) = 5
    /\ EndsWith(lines[1], <<58, 32>> \o args.dataRange)
    /\ \E text \in {SubSeq(lines[2], 9, Len(lines[2]))} :
           CommaSeparated(args.rows, text)
    /\ IF args.columns \in {NoText, <<>>}
       THEN EndsWith(lines[3], <<58, 32>> \o <<40, 110, 111, 110, 101, 41>>)
       ELSE \E text \in {SubSeq(lines[3], 12, Len(lines[3]))} :
                CommaSeparated(args.columns, text)
    /\ \E text \in {SubSeq(lines[4], 11, Len(lines[4]))} :
           CommaSeparated(args.values, text)
    /\ EndsWith(lines[5], <<58, 32>> \o ResolvedAggFunc(args.aggFunc))

\* C18: create_pivot_table with valid arguments changes no sheet and no cell
\* of the workbook: the workbook it worked on is the cached one as it was
\* (or the one read from the file), the file is written from it, nothing
\* else changes, and the response names dataRange, rows, columns, values and
\* the aggregation function the argument resolved to.
C18_PivotChangesNothing ==
    [][(resp'.tool = "create_pivot_table" /\ resp'.status = "ok") =>
          LET k == getExcelPath(resp'.args.filePath)
          IN  /\ cache'[k] # NoHandle
              /\ heap'[cache'[k]] =
                     IF cache[k] # NoHandle THEN heap[cache[k]]
                     ELSE FileToWorkbook(disk[FileOf(k)])
              /\ cache[k] # NoHandle => (cache' = cache /\ heap' = heap)
              /\ \A o \in CacheKeys \ {k} : cache'[o] = cache[o]
              /\ disk'[FileOf(k)] = WorkbookToFile(heap'[cache'[k]])
              /\ \A f \in Files \ {FileOf(k)} : disk'[f] = disk[f]
              /\ EchoesArguments(resp'.data, resp'.args)]_vars

\* a pivot table was asked for over A1:B2 of a sheet without a row, with two
\* row fields and two column fields and the function 'avg': the sheet still
\* has no row and the response names 'average'
C18_Witness ==
    /\ resp.tool = "create_pivot_table"
    /\ resp.status = "ok"
    /\ resp.args.dataRange = A1toB2
    /\ resp.args.rows = <<TextX, TextY>>
    /\ resp.args.columns = <<TextY, TextX>>
    /\ resp.args.aggFunc = AggAvg
    /\ cache[LastPath] # NoHandle
    /\ heap[cache[LastPath]].sheets[1].rows = <<>>
    /\ EndsWith(resp.data[5], <<97, 118, 101, 114, 97, 103, 101>>)

-----------------------------------------------------------------------------
(* Claims about a failed writeFile (Spec) *)

\* what the call of the step leaves when its readFile and its writeFile
\* resolve as given
OutcomeWith(readOk, writeOk) ==
    CallTool(resp'.tool, resp'.args, [read |-> readOk, write |-> writeOk])

\* the step is a call of one of the tools that failed at its writeFile: the
\* call fails though it succeeds when the reads and writes resolve, and it
\* did not fail at readFile (it read no file, or it cached what it read)
PersistFailed(tools) ==
    /\ resp'.tool \in tools
    /\ resp'.status = "error"
    /\ OutcomeWith(TRUE, TRUE).resp.status = "ok"
    /\ \/ OutcomeWith(FALSE, TRUE).resp.status = "ok"
       \/ cache'[getExcelPath(resp'.args.filePath)] # NoHandle

\* the call failed with InternalError, the file is as it was, and the
\* workbook cached for the path is the one the call leaves when it succeeds
MutationKept ==
    LET k == getExcelPath(resp'.args.filePath)
        done == OutcomeWith(TRUE, TRUE)
    IN  /\ Failed("InternalError")
        /\ disk' = disk
        /\ cache'[k] # NoHandle
        /\ heap'[cache'[k]] = done.heap[done.cache[k]]

\* the tools that change the workbook cached for the path
CachedMutatingTools == MutatingTools \ {"create_excel"}

\* the last call was one of those tools and failed at its writeFile
AfterPersistFailed ==
    /\ resp.tool \in CachedMutatingTools
    /\ resp.status = "error"
    /\ resp.code = "InternalError"
    /\ cache[LastPath] # NoHandle

\* C19 as stated: when the persist step of a mutating tool call fails after
\* the in-memory mutation was applied, the call fails with InternalError, the
\* file keeps its content and the cached handle of the path holds the
\* mutation.
C19_NoRollback ==
    [][PersistFailed(MutatingTools) => MutationKept]_vars

\* C19, amended: the same for every mutating tool but create_excel, which
\* caches its workbook only after writeFile; the next tool call on the path
\* gets the same handle (unless it is a create_excel that succeeds, the file
\* being gone), leaves the cells and the file alone where it writes nothing,
\* and where it writes the workbook the file becomes the mutated workbook
\* and what that call changed.
C19_NoRollbackOfCached ==
    /\ [][PersistFailed(CachedMutatingTools) => MutationKept]_vars
    /\ [][(/\ AfterPersistFailed
           /\ resp'.tool \in Tools
           /\ getExcelPath(resp'.args.filePath) = LastPath) =>
              /\ cache'[LastPath] # NoHandle
              /\ cache'[LastPath] # cache[LastPath] =>
                     (resp'.tool = "create_excel" /\ resp'.status = "ok")
              /\ resp'.tool \in {"read_excel", "validate_excel_range"} =>
                     /\ CellsOf(heap'[cache'[LastPath]])
                            = CellsOf(heap[cache[LastPath]])
                     /\ disk' = disk
              /\ (/\ resp'.status = "ok"
                  /\ resp'.tool \in CachedMutatingTools \ {"create_chart"}) =>
                     disk'[FileOf(LastPath)]
                         = WorkbookToFile(heap'[cache'[LastPath]])]_vars

\* write_excel failed at writeFile: the cached workbook has the cells, the
\* file has none
C19_Witness ==
    /\ resp.tool = "write_excel"
    /\ resp.status = "error"
    /\ resp.code = "InternalError"
    /\ cache[LastPath] # NoHandle
    /\ DOMAIN heap[cache[LastPath]].sheets[1].values # {}
    /\ disk[FileOf(LastPath)].exists
    /\ DOMAIN disk[FileOf(LastPath)].sheets[1].values = {}

-----------------------------------------------------------------------------
(* fileUtils: getWorksheet on the workbooks the tool calls make            *)
(* (SpecSheets)                                                            *)

\* the sheetName arguments: left out, empty, the names of the sheets of the
\* model, a name in another letter case, a name no sheet has
LookupNames == {NoArg, "", "Sheet1", "Data", "data", "Nope"}

\* getWorksheet(workbook, sheetName) on a cached workbook
GetWorksheet ==
    \E k \in CacheKeys, sheetName \in LookupNames :
        /\ cache[k] # NoHandle
        /\ codec' = [kind |-> "sheet", sheetName |-> sheetName,
                     names |-> NamesOf(heap[cache[k]].sheets),
                     found |-> getWorksheet(heap[cache[k]], sheetName)]
        /\ UNCHANGED <<cache, heap, disk, resp, calls>>

SheetsNext ==
    \/ CreateExcel
    \/ CreateSheet
    \/ RenameWorksheet
    \/ DeleteWorksheet
    \/ GetWorksheet

SpecSheets == Init /\ [][SheetsNext]_vars

-----------------------------------------------------------------------------
(* The formula validator on texts, and the two formula tools on a workbook *)
(* (SpecFormula)                                                           *)

MaxFormulaLen == 4

\* '=', '(', ')', '"', '+', '-', '1', 'A', ' '
FormulaChars == {61, 40, 41, 34, 43, 45, 49, 65, 32}
FormulaTexts == UNION {[1..k -> FormulaChars] : k \in 0..MaxFormulaLen}

\* '=1+2', '=SUM(A1', '=1+', '=1+-2', '="a', ' ', '=FOO(1)'
ToolFormulas ==
    { <<61, 49, 43, 50>>, <<61, 83, 85, 77, 40, 65, 49>>, <<61, 49, 43>>,
      <<61, 49, 43, 45, 50>>, <<61, 34, 97>>, <<32>>,
      <<61, 70, 79, 79, 40, 49, 41>> }

FormulaArgs ==
    [filePath : ToolFilePaths, sheetName : {NoArg, "Data"}, cell : {A1, B2},
     formula : ToolFormulas \cup {NoText}]

FormulaInit ==
    /\ ServerInit
    /\ codec \in {NoCodec} \cup [kind : {"formula"}, text : FormulaTexts]

\* validateFormula on a text
ValidateFormulaText ==
    /\ codec.kind = "formula"
    /\ codec' = [kind |-> "validated", text |-> codec.text,
                 result |-> validateFormula(codec.text),
                 warned |-> unknownFunctions(codec.text)]
    /\ UNCHANGED <<cache, heap, disk, resp, calls>>

FormulaCreate ==
    \E args \in CreateExcelArgs, io \in NoIO :
        /\ codec = NoCodec
        /\ Serve("create_excel", args, io)

ApplyFormula ==
    \E args \in FormulaArgs, io \in WriteIO :
        /\ codec = NoCodec
        /\ Serve("apply_formula", args, io)

ValidateFormulaSyntax ==
    \E args \in FormulaArgs, io \in ReadIO :
        /\ codec = NoCodec
        /\ Serve("validate_formula_syntax", args, io)

FormulaExternalWrite == codec = NoCodec /\ ExternalWrite

FormulaNext ==
    \/ ValidateFormulaText
    \/ FormulaCreate
    \/ ApplyFormula
    \/ ValidateFormulaSyntax
    \/ FormulaExternalWrite

SpecFormula == FormulaInit /\ [][FormulaNext]_vars

\* the text without one leading '='
WithoutEquals(text) ==
    IF text # <<>> /\ Head(text) = 61 THEN SubSeq(text, 2, Len(text)) ELSE text

\* the positions of a character in a text
PositionsOf(text, c) == {i \in DOMAIN text : text[i] = c}

\* what the validator passes: a text that is not blank and whose content
\* after the '=' has as many '(' as ')', an even number of '"', no operator
\* at its end and no operator next to an operator
PassesChecks(text) ==
    LET content == WithoutEquals(text)
    IN  /\ text # NoText
        /\ \E i \in DOMAIN text : text[i] # 32
        /\ Cardinality(PositionsOf(content, 40))
               = Cardinality(PositionsOf(content, 41))
        /\ Cardinality(PositionsOf(content, 34)) % 2 = 0
        /\ \A i \in DOMAIN content :
               content[i] \in {43, 45, 42, 47} =>
                   /\ i # Len(content)
                   /\ content[i + 1] \notin {43, 45, 42, 47}

\* the formula tool of the step found its workbook cached and its sheet
FormulaStep(tool) ==
    /\ resp'.tool = tool
    /\ cache[getExcelPath(resp'.args.filePath)] # NoHandle
    /\ getWorksheet(heap[cache[getExcelPath(resp'.args.filePath)]],
                    resp'.args.sheetName) # 0

\* C21: validate_formula_syntax raises no error for a formula the validator
\* rejects: it returns a text response that names the problem, and apply_formula
\* with the same formula fails with InvalidParams; neither changes a
\* workbook, the cache or a file.
C21_SoftAndHardFailure ==
    [][/\ (FormulaStep("validate_formula_syntax")
              /\ ~PassesChecks(resp'.args.formula)) =>
              /\ resp'.status = "ok"
              /\ resp'.text = "Formula error"
              /\ resp'.data \in { <<"Formula is empty">>,
                                  <<"Mismatched parentheses">>,
                                  <<"Mismatched quotation marks">>,
                                  <<"Formula ends with an operator">>,
                                  <<"Consecutive operators">> }
       /\ resp'.tool = "validate_formula_syntax" =>
              /\ disk' = disk
              /\ cache[getExcelPath(resp'.args.filePath)] # NoHandle =>
                     (heap' = heap /\ cache' = cache)
       /\ (FormulaStep("apply_formula")
              /\ ~PassesChecks(resp'.args.formula)) =>
              /\ Failed("InvalidParams")
              /\ heap' = heap /\ cache' = cache /\ disk' = disk]_vars

\* validate_formula_syntax answered '=1+' with the text of the problem, on a
\* workbook whose cell A1 holds the formula of an earlier apply_formula
C21_Witness ==
    /\ resp.tool = "validate_formula_syntax"
    /\ resp.status = "ok"
    /\ resp.args.formula = <<61, 49, 43>>
    /\ resp.data = <<"Formula ends with an operator">>
    /\ cache[LastPath] # NoHandle
    /\ <<1, 1>> \in DOMAIN heap[cache[LastPath]].sheets[1].values
    /\ heap[cache[LastPath]].sheets[1].values[<<1, 1>>].t = "formula"

C25_VocabularyAccepted ==
    (/\ resp.tool = "create_pivot_table"
     /\ \E i \in 1..Len(validFuncs) : resp.args.aggFunc = validFuncs[i]
     /\ resp.args.sheetName = NoArg
     /\ resp.args.dataRange = A1toB2
     /\ cache[LastPath] # NoHandle) =>
        ~(resp.status = "error" /\ resp.code = "InvalidParams")

-----------------------------------------------------------------------------
(* handlers/worksheetHandlers: the merged cells in copy_worksheet          *)
(* (SpecMerge).  A worksheet with merged cells is the worksheet and its    *)
(* merged rectangles; the cell at the top left of a rectangle is its       *)
(* master and holds the value, every other cell of it is a Cell object of  *)
(* type Merge whose value and master are the master's.                     *)

MaxMergeRow == 3
MaxMergeCol == 3

Rectangles ==
    {m \in [top : 1..MaxMergeRow, left : 1..MaxMergeCol,
            bottom : 1..MaxMergeRow, right : 1..MaxMergeCol] :
        /\ m.top <= m.bottom
        /\ m.left <= m.right
        /\ (m.top < m.bottom \/ m.left < m.right)}

InRectangle(m, r, c) ==
    r >= m.top /\ r <= m.bottom /\ c >= m.left /\ c <= m.right

Overlapping(a, b) ==
    /\ a.top <= b.bottom /\ b.top <= a.bottom
    /\ a.left <= b.right /\ b.left <= a.right

\* one or two merged rectangles that do not overlap, or none
MergeLayouts ==
    {{}} \cup {{a} : a \in Rectangles}
         \cup {{a, b} : <<a, b>> \in {p \in Rectangles \X Rectangles :
                                          ~Overlapping(p[1], p[2])}}

\* cell.master of worksheet.getCell(r, c), as <<row, column>>
masterOf(merges, r, c) ==
    IF \E m \in merges : InRectangle(m, r, c)
    THEN LET m == CHOOSE x \in merges : InRectangle(x, r, c)
         IN  <<m.top, m.left>>
    ELSE <<r, c>>

\* worksheet.mergeCells(top, left, bottom, right) on every rectangle: the
\* Cell objects of the rectangles are made
mergeCells(ws, merges) ==
    [ws EXCEPT !.rows =
        <<>> \o [r \in 1..Max(Len(ws.rows),
                            Greatest({m.bottom : m \in merges})) |->
            Max(IF r <= Len(ws.rows) THEN ws.rows[r] ELSE 0,
                Greatest({m.right : m \in {x \in merges :
                                              r >= x.top /\ r <= x.bottom}}))]]

\* row.hasValues: a cell of type Merge is not of type Null
hasValuesMerged(ms, r) ==
    \/ hasValues(ms.ws, r)
    \/ \E m \in ms.merges :
           /\ r >= m.top /\ r <= m.bottom
           /\ (r > m.top \/ m.right > m.left)

\* worksheet.columnCount
columnCountMerged(ms) ==
    Greatest({ms.ws.rows[r] :
                 r \in {q \in 1..Len(ms.ws.rows) : hasValuesMerged(ms, q)}})

\* cell.value of worksheet.getCell(r, c)
MergedValue(ms, r, c) ==
    CellValue(ms.ws, masterOf(ms.merges, r, c)[1], masterOf(ms.merges, r, c)[2])

\* endRow after "for (let r = rowNumber; r <= sourceWorksheet.rowCount; r++)"
scanEndRow(ms, r0, c0) ==
    Greatest({r0} \cup
             {r \in r0..rowCount(ms.ws) :
                 \A q \in r0..r : masterOf(ms.merges, q, c0) = <<r0, c0>>})

\* the worksheet after that loop called getCell: on the rows up to the one
\* where it breaks
scanRows(ms, r0, c0) ==
    [ms EXCEPT !.ws = getCells(@, r0, Min(scanEndRow(ms, r0, c0) + 1,
                                          rowCount(ms.ws)), c0, c0)]

\* endCol after "for (let c = colNumber; c <= sourceWorksheet.columnCount;
\* c++)"
scanEndCol(ms, r0, c0) ==
    Greatest({c0} \cup
             {c \in c0..columnCountMerged(ms) :
                 \A q \in c0..c : masterOf(ms.merges, r0, q) = <<r0, c0>>})

scanCols(ms, r0, c0) ==
    [ms EXCEPT !.ws = getCells(@, r0, r0, c0,
                               Min(scanEndCol(ms, r0, c0) + 1,
                                   columnCountMerged(ms)))]

\* the masters eachRow and eachCell come to, in their order
mastersOf(merges) ==
    LET first(S) == CHOOSE m \in S : \A x \in S :
                        m.top < x.top \/ (m.top = x.top /\ m.left <= x.left)
        ordered[S \in SUBSET merges] ==
            IF S = {} THEN <<>> ELSE <<first(S)>> \o ordered[S \ {first(S)}]
    IN  ordered[merges]

\* the scan looking down the column only
scanMergedRowsOnly(source, masters, merged, thrown) ==
    [source |-> source,
     merged |-> {[top |-> masters[i].top, left |-> masters[i].left,
                  bottom |-> scanEndRow(source, masters[i].top, masters[i].left),
                  right |-> masters[i].left] : i \in 1..Len(masters)},
     thrown |-> FALSE]

\* the scan of the merged cells: source is the source worksheet as the scan
\* leaves it, merged the rectangles given to targetWorksheet.mergeCells, and
\* thrown tells that mergeCells met cells that are merged already
RECURSIVE scanMerged(_, _, _, _)
scanMerged(source, masters, merged, thrown) ==
    IF masters = <<>> \/ thrown
    THEN [source |-> source, merged |-> merged, thrown |-> thrown]
    ELSE LET r0 == masters[1].top
             c0 == masters[1].left
             afterRows == scanRows(source, r0, c0)
             found == [top |-> r0, left |-> c0,
                       bottom |-> scanEndRow(source, r0, c0),
                       right |-> scanEndCol(afterRows, r0, c0)]
         IN  scanMerged(scanCols(afterRows, r0, c0), Tail(masters),
                        IF found.bottom > r0 \/ found.right > c0
                        THEN merged \cup {found} ELSE merged,
                        \E m \in merged : Overlapping(m, found))

\* the target worksheet of copy_worksheet for a source with merged cells:
\* every Cell of the source gives its value, the merged ones the value of
\* their master, and the rectangles of the scan are merged again
copyMerged(source, targetSheet) ==
    LET scanned == scanMerged(source, mastersOf(source.merges), {}, FALSE)
    IN  [source |-> scanned.source,
         thrown |-> scanned.thrown,
         target |-> [ws |-> mergeCells(copySheet(source.ws, targetSheet),
                                       scanned.merged),
                     merges |-> scanned.merged]]

\* the cells with a value in the source worksheets: none, the first cell,
\* the last cell, every cell
ValuedCells ==
    { {}, {<<1, 1>>}, {<<MaxMergeRow, MaxMergeCol>>},
      (1..MaxMergeRow) \X (1..MaxMergeCol) }

\* the worksheet "Data" with the merged rectangles and a number in each of
\* the cells given that is not inside a rectangle without being its master
MergedSheet(merges, valued) ==
    LET cells == {p \in valued : masterOf(merges, p[1], p[2]) = p}
        filled == [name |-> "Data",
                   values |-> [p \in cells |-> Num(p[1] * 10 + p[2])],
                   rows |-> <<>> \o [r \in 1..Greatest({p[1] : p \in cells}) |->
                               Greatest({p[2] : p \in {q \in cells : q[1] = r}})]]
    IN  [ws |-> mergeCells(filled, merges), merges |-> merges]

MergeInit ==
    /\ ServerInit
    /\ codec \in [kind : {"merged"}, merges : MergeLayouts,
                  valued : ValuedCells]

\* copy_worksheet from "workbook.addWorksheet(targetSheet)" to the end of
\* the scan of the merged cells
CopyMerged ==
    /\ codec.kind = "merged"
    /\ \E before \in {MergedSheet(codec.merges, codec.valued)} :
           codec' = [kind |-> "copied", before |-> before,
                     copy |-> copyMerged(before, "Copy")]
    /\ UNCHANGED <<cache, heap, disk, resp, calls>>

MergeNext == CopyMerged

SpecMerge == MergeInit /\ [][MergeNext]_vars

-----------------------------------------------------------------------------
(* copy_range on the tables written by write_excel (SpecCopy) *)

CopyRangeArgs ==
    [filePath : ToolFilePaths, sheetName : {NoArg},
     sourceStart : {A1, B2}, sourceEnd : {A1, B2, C3},
     targetStart : {A1, A2, B1, B2, C3}, targetSheet : {NoArg, "Data"}]

CopyRange ==
    \E args \in CopyRangeArgs, io \in WriteIO :
        /\ resp.tool \in {"write_excel", "create_sheet"}
        /\ Serve("copy_range", args, io)

\* the second worksheet copy_range may be given as targetSheet
CopyCreateSheet ==
    \E args \in [filePath : ToolFilePaths, sheetName : {"Data"}], io \in NoIO :
        /\ resp.tool = "write_excel"
        /\ Serve("create_sheet", args, io)

CopyNext == RangeCreate \/ RangeWrite \/ CopyCreateSheet \/ CopyRange

SpecCopy == Init /\ [][CopyNext]_vars

\* the cached workbook of the call that is answered next
CopyBook == heap[cache[getExcelPath(resp'.args.filePath)]]
CopyBookAfter == heap'[cache[getExcelPath(resp'.args.filePath)]]

\* the positions of the source and target worksheets of that call
CopySource == getWorksheet(CopyBook, resp'.args.sheetName)
CopyTarget ==
    IF resp'.args.targetSheet # NoArg
    THEN getWorksheet(CopyBook, resp'.args.targetSheet) ELSE CopySource

\* the target rectangle overlaps the source rectangle in the same sheet
CopyOverlaps ==
    LET s == parseCellOrRange(copyRangeText(resp'.args))
        t == cellRefToCoordinate(resp'.args.targetStart)
    IN  /\ CopySource = CopyTarget
        /\ t # [ok |-> TRUE, row |-> s.startRow, col |-> s.startCol]
        /\ t.row <= s.endRow /\ s.startRow <= t.row + (s.endRow - s.startRow)
        /\ t.col <= s.endCol /\ s.startCol <= t.col + (s.endCol - s.startCol)

\* after the call, the target cell at every offset of the source rectangle
\* holds what the source cell at that offset held before it, and every
\* other cell of the workbook holds what it held
CopiedAsBefore ==
    LET s == parseCellOrRange(copyRangeText(resp'.args))
        t == cellRefToCoordinate(resp'.args.targetStart)
        height == s.endRow - s.startRow + 1
        width == s.endCol - s.startCol + 1
        inTarget(r, c) == /\ r >= t.row /\ r < t.row + height
                          /\ c >= t.col /\ c < t.col + width
    IN  /\ Len(CopyBookAfter.sheets) = Len(CopyBook.sheets)
        /\ \A si \in 1..Len(CopyBook.sheets) :
               \A r \in 1..(2 * MaxRow + 1), c \in 1..(2 * MaxCol + 1) :
                   CellValue(CopyBookAfter.sheets[si], r, c) =
                       IF si = CopyTarget /\ inTarget(r, c)
                       THEN CellValue(CopyBook.sheets[CopySource],
                                      s.startRow + (r - t.row),
                                      s.startCol + (c - t.col))
                       ELSE CellValue(CopyBook.sheets[si], r, c)

\* C27 as stated: after copy_range, for every offset (i, j) inside the source
\* rectangle the target cell at targetStart + (i, j) holds the value the
\* source cell at sourceStart + (i, j) held before the call, also when the
\* target rectangle overlaps the source rectangle in the same sheet, and
\* every cell outside the target rectangle is unchanged.
C27_CopyRangeCopies ==
    [][(resp'.tool = "copy_range" /\ resp'.status = "ok") => CopiedAsBefore]_vars

\* the same for the calls whose target rectangle does not overlap the source
\* rectangle in the same sheet
C27_CopyRangeApart ==
    [][(/\ resp'.tool = "copy_range"
        /\ resp'.status = "ok"
        /\ ~CopyOverlaps) => CopiedAsBefore]_vars

-----------------------------------------------------------------------------
(* One file named in two ways (SpecPaths): the calls give the file by its  *)
(* name under the base directory or by its absolute path.                  *)

PathCreateArgs == [filePath : FilePathArgs, sheetName : {NoArg}]

PathWriteArgs ==
    [filePath : FilePathArgs, sheetName : {NoArg},
     data : {[isArray |-> TRUE, items |-> <<ArrayItem(<<Num(1)>>)>>],
             [isArray |-> TRUE, items |-> <<ArrayItem(<<Num(2)>>)>>]},
     startCell : {A1, B1, A2}, writeHeaders : {FALSE}]

PathCreate ==
    \E args \in PathCreateArgs, io \in NoIO :
        /\ resp = NoResp
        /\ Serve("create_excel", args, io)

PathWrite ==
    \E args \in PathWriteArgs, io \in NoIO :
        /\ resp # NoResp
        /\ Serve("write_excel", args, io)

PathsNext == PathCreate \/ PathWrite

SpecPaths == Init /\ [][PathsNext]_vars

\* C28 as stated: two tool calls whose filePath arguments denote the same
\* file on disk (a name relative to the base directory and the absolute path
\* of that file) resolve to one cache key and share one cached handle, so at
\* most one in-memory representation of a file exists and neither call's
\* persist overwrites the other call's mutation: the workbooks cached for
\* two paths of one file are one workbook, and the file holds it.
C28_OneRepresentation ==
    \A f1 \in FilePathArgs, f2 \in FilePathArgs :
        (/\ FileOf(getExcelPath(f1)) = FileOf(getExcelPath(f2))
         /\ cache[getExcelPath(f1)] # NoHandle
         /\ cache[getExcelPath(f2)] # NoHandle) =>
            /\ cache[getExcelPath(f1)] = cache[getExcelPath(f2)]
            /\ disk[FileOf(getExcelPath(f1))]
                   = WorkbookToFile(heap[cache[getExcelPath(f1)]])

-----------------------------------------------------------------------------
(* Tool calls with arguments the handlers reject (SpecInvalid): one call   *)
(* of any tool, on no file, on a file that is not cached, on the workbook  *)
(* create_excel made or on the table write_excel wrote.                    *)

\* [[1], 2]: neither an array of arrays nor an array of objects
TableMixed ==
    [isArray |-> TRUE, items |-> <<ArrayItem(<<Num(1)>>), ScalarItem(Num(2))>>]

\* no call is suspended and the last step was none of the calls below
Settled ==
    /\ calls = <<>>
    /\ resp.tool \in {"", "(overwrite)", "create_excel", "write_excel"}

InvalidExternalWrite == resp = NoResp /\ ExternalWrite

AnyReadExcel ==
    \E args \in [filePath : ToolFilePaths, sheetName : {NoArg, "Nope"},
                 range : {A1toB2, A1dashC3, OnlyDigits},
                 previewOnly : {FALSE}], io \in NoIO :
        Settled /\ Serve("read_excel", args, io)

AnyWriteExcel ==
    \E args \in [filePath : ToolFilePaths, sheetName : {NoArg, "Nope"},
                 data : {TableXY, TableMixed}, startCell : {B2, OnlyDigits},
                 writeHeaders : {FALSE}], io \in NoIO :
        Settled /\ resp.tool # "create_excel"
                /\ Serve("write_excel", args, io)

AnyCreateExcel ==
    \E args \in CreateExcelArgs, io \in NoIO :
        Settled /\ resp # NoResp /\ Serve("create_excel", args, io)

AnyCreateSheet ==
    \E args \in [filePath : ToolFilePaths, sheetName : {"Sheet1", "Data"}],
       io \in NoIO :
        Settled /\ Serve("create_sheet", args, io)

AnyRenameWorksheet ==
    \E args \in [filePath : ToolFilePaths, oldName : {"Sheet1", "Nope"},
                 newName : {"Sheet1", "Data"}], io \in NoIO :
        Settled /\ Serve("rename_worksheet", args, io)

AnyDeleteWorksheet ==
    \E args \in [filePath : ToolFilePaths, sheetName : {"Sheet1", "Nope"}],
       io \in NoIO :
        Settled /\ Serve("delete_worksheet", args, io)

AnyCopyWorksheet ==
    \E args \in [filePath : ToolFilePaths, sourceSheet : {"Sheet1", "Nope"},
                 targetSheet : {"Sheet1", "Data"}], io \in NoIO :
        Settled /\ Serve("copy_worksheet", args, io)

AnyValidateExcelRange ==
    \E args \in [filePath : ToolFilePaths, sheetName : {NoArg, "Nope"},
                 startCell : {A1, A1dashC3}, endCell : {<<>>, B2}],
       io \in NoIO :
        Settled /\ Serve("validate_excel_range", args, io)

AnyCreateChart ==
    \E args \in [filePath : ToolFilePaths, sheetName : {NoArg, "Nope"},
                 dataRange : {A1toB2, OnlyDigits},
                 chartType : {TextColumn, TextGantt}], io \in NoIO :
        Settled /\ Serve("create_chart", args, io)

AnyCreatePivotTable ==
    \E args \in CreatePivotTableArgs, io \in NoIO :
        Settled /\ Serve("create_pivot_table", args, io)

AnyApplyFormula ==
    \E args \in [filePath : ToolFilePaths, sheetName : {NoArg, "Nope"},
                 cell : {B2, OnlyDigits},
                 formula : {<<61, 49, 43, 50>>, <<61, 49, 43>>}], io \in NoIO :
        Settled /\ Serve("apply_formula", args, io)

AnyValidateFormulaSyntax ==
    \E args \in [filePath : ToolFilePaths, sheetName : {NoArg, "Nope"},
                 formula : {<<61, 49, 43, 50>>, <<61, 49, 43>>}], io \in NoIO :
        Settled /\ Serve("validate_formula_syntax", args, io)

AnyCopyRange ==
    \E args \in [filePath : ToolFilePaths, sheetName : {NoArg, "Nope"},
                 sourceStart : {A1, OnlyDigits}, sourceEnd : {B2},
                 targetStart : {A2, OnlyDigits},
                 targetSheet : {NoArg, "Nope"}], io \in NoIO :
        Settled /\ Serve("copy_range", args, io)

AnyDeleteRange == Settled /\ DeleteRangeBegin

InvalidNext ==
    \/ RangeCreate
    \/ RangeWrite
    \/ InvalidExternalWrite
    \/ AnyReadExcel
    \/ AnyWriteExcel
    \/ AnyCreateExcel
    \/ AnyCreateSheet
    \/ AnyRenameWorksheet
    \/ AnyDeleteWorksheet
    \/ AnyCopyWorksheet
    \/ AnyValidateExcelRange
    \/ AnyCreateChart
    \/ AnyCreatePivotTable
    \/ AnyApplyFormula
    \/ AnyValidateFormulaSyntax
    \/ AnyCopyRange
    \/ AnyDeleteRange
    \/ ShiftUpStep
    \/ ShiftLeftStep
    \/ DeleteRangeEnd

SpecInvalid == Init /\ [][InvalidNext]_vars

\* the step leaves every file and every cached workbook as it was; a
\* workbook the step has cached is the one read from the file of its path
NothingChanged ==
    /\ disk' = disk
    /\ \A k \in CacheKeys :
           IF cache[k] # NoHandle
           THEN cache'[k] = cache[k] /\ heap'[cache[k]] = heap[cache[k]]
           ELSE \/ cache'[k] = NoHandle
                \/ heap'[cache'[k]] = FileToWorkbook(disk[FileOf(k)])

\* C29: every tool call that fails with InvalidParams (missing file or sheet,
\* name collision, malformed address or range, invalid formula, invalid data
\* shape, invalid chart type or aggregation function) leaves the contents of
\* every cached workbook and of every file on disk exactly as they were
\* before the call (a step with no call suspended before or after it is a
\* whole call).
C29_InvalidParamsChangesNothing ==
    [][(/\ calls = <<>>
        /\ calls' = <<>>
        /\ resp'.status = "error"
        /\ resp'.code = "InvalidParams") => NothingChanged]_vars

\* copy_worksheet was refused for its source sheet on a workbook that holds
\* the written table, and the workbook has its one sheet and the table
C29_Witness ==
    /\ resp.tool = "copy_worksheet"
    /\ resp.code = "InvalidParams"
    /\ resp.args.sourceSheet = "Nope"
    /\ resp.args.targetSheet = "Data"
    /\ cache[getExcelPath(resp.args.filePath)] # NoHandle
    /\ Len(heap[cache[getExcelPath(resp.args.filePath)]].sheets) = 1
    /\ CellValue(heap[cache[getExcelPath(resp.args.filePath)]].sheets[1], 2, 2)
           = Num(2)

-----------------------------------------------------------------------------
(* The tools that only read (SpecObserve): read_excel,                     *)
(* get_workbook_metadata, validate_excel_range and validate_formula_syntax *)
(* called in any order on the workbook create_excel made and on the tables *)
(* write_excel wrote.                                                      *)

ObservingTools ==
    {"read_excel", "get_workbook_metadata", "validate_excel_range",
     "validate_formula_syntax"}

\* a workbook is there and no call is suspended
Observable == calls = <<>> /\ resp # NoResp

ObserveReadExcel ==
    \E args \in [filePath : ToolFilePaths, sheetName : {NoArg},
                 range : {<<>>, A1toB2, A2toB3}, previewOnly : BOOLEAN],
       io \in NoIO :
        Observable /\ Serve("read_excel", args, io)

ObserveMetadata ==
    \E args \in [filePath : ToolFilePaths, includeRanges : BOOLEAN],
       io \in NoIO :
        Observable /\ Serve("get_workbook_metadata", args, io)

ObserveValidateRange ==
    \E args \in [filePath : ToolFilePaths, sheetName : {NoArg},
                 startCell : {A1, B2}, endCell : {<<>>, B2, C3}], io \in NoIO :
        Observable /\ Serve("validate_excel_range", args, io)

ObserveValidateFormula ==
    \E args \in [filePath : ToolFilePaths, sheetName : {NoArg},
                 formula : {<<61, 49, 43, 50>>, <<61, 49, 43>>}], io \in NoIO :
        Observable /\ Serve("validate_formula_syntax", args, io)

ObserveNext ==
    \/ RangeCreate
    \/ RangeWrite
    \/ ObserveReadExcel
    \/ ObserveMetadata
    \/ ObserveValidateRange
    \/ ObserveValidateFormula

SpecObserve == Init /\ [][ObserveNext]_vars

\* what a later tool call can observe of a workbook: the sheet list, and of
\* every sheet the cell values and the reported row and column counts
ObservedOf(wb) ==
    <<>> \o [i \in 1..Len(wb.sheets) |->
        [name |-> wb.sheets[i].name, values |-> wb.sheets[i].values,
         rowCount |-> rowCount(wb.sheets[i]),
         columnCount |-> columnCount(wb.sheets[i])]]

\* C30 as stated: read_excel, get_workbook_metadata, validate_excel_range and
\* validate_formula_syntax never write the file and leave the cached
\* workbook unchanged in everything a later tool call can observe: cell
\* values, the sheet list, and the worksheet's reported row and column
\* counts.
C30_ObserversChangeNothing ==
    [][resp'.tool \in ObservingTools =>
          /\ disk' = disk
          /\ \A k \in CacheKeys :
                 cache[k] # NoHandle =>
                     /\ cache'[k] = cache[k]
                     /\ ObservedOf(heap'[cache[k]]) = ObservedOf(heap[cache[k]])]_vars

====
